---- MODULE Spec2Model ----
(***************************************************************************)
(* dirdocs: the cache/tree synchronisation run of src/main.rs together     *)
(* with the cache helpers of src/cache.rs (load, index, sub-cache          *)
(* discovery, rebasing, tree builder).                                     *)
(*                                                                         *)
(* Paths are sequences of components: "a/b/y" is <<"a","b","y">> and the   *)
(* empty path "" is <<>>.  Timestamps are naturals read from the clock     *)
(* variable now.                                                           *)
(***************************************************************************)
EXTENDS Integers, Sequences, FiniteSets, TLC

(***************************************************************************)
(* Bounds of the model.                                                    *)
(***************************************************************************)
MaxClock == 2

(***************************************************************************)
(* The file system the runs work on.                                       *)
(***************************************************************************)
ProjRoot == <<"proj">>
DirA == <<"proj", "a">>
DirB == <<"proj", "a", "b">>
DirC == <<"proj", "c">>
Dirs == {ProjRoot, DirA, DirB, DirC}

FY == <<"proj", "a", "b", "y">>
FZ == <<"proj", "c", "z">>
Files == {FY, FZ}

Contents == {"c1", "c2"}

\* src/main.rs:847  CHILD_CACHE_NAMES, in the order the driver tries them
CHILD_CACHE_NAMES == <<".dirdocs.nu", ".dir.nuon">>
\* the name main writes (src/main.rs:177)
DIRDOCS_NU == ".dirdocs.nu"
\* the name dls and dtree look for (src/bin/dls.rs:684, src/bin/dtree.rs:659)
DIRDOCS_NUON == ".dirdocs.nuon"
\* names a directory of the model may hold a cache file under
CacheFileNames == {".dirdocs.nu", ".dir.nuon", ".DIRDOCS.NU", DIRDOCS_NUON}

(***************************************************************************)
(* Small helpers on sequences and maps.                                    *)
(***************************************************************************)
Min(S) == CHOOSE x \in S : \A y \in S : x <= y

IsPrefix(p, q) == Len(p) <= Len(q) /\ SubSeq(q, 1, Len(p)) = p

EmptyMap == [k \in {} |-> 0]

\* HashMap::insert: the value under an existing key is replaced
MapPut(m, k, v) == [x \in (DOMAIN m) \cup {k} |-> IF x = k THEN v ELSE m[x]]

(***************************************************************************)
(* Path model.                                                             *)
(***************************************************************************)
\* Component::Normal: what is neither a root, a current-dir nor a parent-dir
IsNormal(c) == c \notin {"/", ".", ".."}

IsAbsolute(p) == Len(p) > 0 /\ p[1] = "/"

\* PathBuf::join: an absolute argument replaces the base
Join(base, p) == IF IsAbsolute(p) THEN p ELSE base \o p

RECURSIVE CommonLen(_, _)
CommonLen(p, q) ==
  IF p = <<>> \/ q = <<>> \/ Head(p) # Head(q) THEN 0
  ELSE 1 + CommonLen(Tail(p), Tail(q))

\* pathdiff::diff_paths on two absolute paths without "." or "..":
\* one ".." for every component of base past the common prefix, then the
\* rest of path
DiffPaths(path, base) ==
  LET n == CommonLen(path, base)
  IN [i \in 1..(Len(base) - n) |-> ".."] \o SubSeq(path, n + 1, Len(path))

\* src/cache.rs:251  rel_label
rel_label(root_abs, cwd) ==
  LET rel == DiffPaths(root_abs, cwd)
  IN IF rel = <<>> THEN <<".">> ELSE rel

(***************************************************************************)
(* Tree data model (src/types.rs).  A node is a record tagged by kind, as  *)
(* in the serialised document.  A description is a sequence of words; the   *)
(* empty description is <<>>.                                              *)
(***************************************************************************)
\* #[derive(Default)] of Doc: empty strings and serde_json::Value::Null
DefaultDoc ==
  [fileDescription |-> <<>>, joyThisFileBrings |-> "null", personalityEmoji |-> ""]

FileNode(name, path, hash, updated_at, doc) ==
  [kind |-> "file", name |-> name, path |-> path, hash |-> hash,
   updated_at |-> updated_at, doc |-> doc]

DirNode(name, path, updated_at, entries) ==
  [kind |-> "dir", name |-> name, path |-> path, updated_at |-> updated_at,
   entries |-> entries]

\* the FileEntry of a File node (the node without its tag)
FileEntry(name, path, hash, updated_at, doc) ==
  [name |-> name, path |-> path, hash |-> hash, updated_at |-> updated_at,
   doc |-> doc]

DirdocsRoot(root, updated_at, entries) ==
  [root |-> root, updated_at |-> updated_at, entries |-> entries]

\* blake3 of the content, as a hex string: distinct contents, distinct hashes
Blake3(content) == <<"blake3", content>>

(***************************************************************************)
(* (De)serialisation.  The body of a file on disk is a record whose st is *)
(* "absent", "unreadable", "malformed" or "ok"; an "ok" body carries the   *)
(* document, a record of the DirdocsRoot shape whose File nodes may lack   *)
(* doc and whose docs may use the legacy key names.                        *)
(***************************************************************************)
\* serde aliases of Doc (src/types.rs:48, 52)
FromJsonDoc(j) ==
  [fileDescription |-> j.fileDescription,
   joyThisFileBrings |->
     IF "joyThisFileBrings" \in DOMAIN j THEN j.joyThisFileBrings
     ELSE j.howMuchJoyDoesThisFileBringYou,
   personalityEmoji |->
     IF "personalityEmoji" \in DOMAIN j THEN j.personalityEmoji
     ELSE j.emojiThatExpressesThisFilesPersonality]

RECURSIVE FromJsonNodes(_)
FromJsonNodes(js) ==
  [i \in 1..Len(js) |->
     IF js[i].kind = "dir"
     THEN DirNode(js[i].name, js[i].path, js[i].updated_at,
                  FromJsonNodes(js[i].entries))
     ELSE FileNode(js[i].name, js[i].path, js[i].hash, js[i].updated_at,
                   \* #[serde(default)] doc
                   IF "doc" \in DOMAIN js[i] THEN FromJsonDoc(js[i].doc)
                   ELSE DefaultDoc)]

\* serde_json::from_str::<DirdocsRoot>
FromJson(j) == DirdocsRoot(j.root, j.updated_at, FromJsonNodes(j.entries))

RECURSIVE ToJsonNodes(_)
ToJsonNodes(ns) ==
  [i \in 1..Len(ns) |->
     IF ns[i].kind = "dir"
     THEN [kind |-> "dir", name |-> ns[i].name, path |-> ns[i].path,
           updated_at |-> ns[i].updated_at, entries |-> ToJsonNodes(ns[i].entries)]
     ELSE [kind |-> "file", name |-> ns[i].name, path |-> ns[i].path,
           hash |-> ns[i].hash, updated_at |-> ns[i].updated_at,
           doc |-> [fileDescription |-> ns[i].doc.fileDescription,
                    joyThisFileBrings |-> ns[i].doc.joyThisFileBrings,
                    personalityEmoji |-> ns[i].doc.personalityEmoji]]]

\* serde_json::to_string_pretty(&new_root) + "\n": canonical key names only
ToJson(tree) ==
  [root |-> tree.root, updated_at |-> tree.updated_at, entries |-> ToJsonNodes(tree.entries)]

\* what fs::read_to_string gives for a file body of the model
Absent == [st |-> "absent"]
Unreadable == [st |-> "unreadable"]
Malformed == [st |-> "malformed"]
Document(j) == [st |-> "ok", doc |-> j]

ReadFails(body) == body.st \in {"absent", "unreadable"}
ParseFails(body) == body.st = "malformed"

\* load_existing_tree that labels the empty tree with the path from the root
\* to cwd
load_labels_from_root(body, root_abs, cwd, t) ==
  IF body.st # "ok" THEN DirdocsRoot(rel_label(cwd, root_abs), t, <<>>)
  ELSE FromJson(body.doc)

\* src/cache.rs:39 / src/main.rs:808  load_existing_tree; body is the content
\* of the file at path, t the value of Utc::now()
load_existing_tree(body, root_abs, cwd, t) ==
  IF ReadFails(body) THEN DirdocsRoot(rel_label(root_abs, cwd), t, <<>>)
  ELSE IF ParseFails(body) THEN DirdocsRoot(rel_label(root_abs, cwd), t, <<>>)
  ELSE FromJson(body.doc)

(***************************************************************************)
(* Cache index (src/cache.rs:93 / src/main.rs:836).                        *)
(***************************************************************************)
NodeEntry(n) == FileEntry(n.name, n.path, n.hash, n.updated_at, n.doc)

\* index_files_by_path that keeps the entry it has under a key
RECURSIVE index_keeps_first(_, _)
index_keeps_first(nodes, map) ==
  IF nodes = <<>> THEN map
  ELSE LET n == Head(nodes)
           m1 == IF n.kind = "dir" THEN index_keeps_first(n.entries, map)
                 ELSE IF n.path \in DOMAIN map THEN map
                 ELSE MapPut(map, n.path, NodeEntry(n))
       IN index_keeps_first(Tail(nodes), m1)

RECURSIVE index_files_by_path(_, _)
index_files_by_path(nodes, map) ==
  IF nodes = <<>> THEN map
  ELSE LET n == Head(nodes)
           m1 == IF n.kind = "dir" THEN index_files_by_path(n.entries, map)
                 ELSE MapPut(map, n.path, NodeEntry(n))
       IN index_files_by_path(Tail(nodes), m1)

(***************************************************************************)
(* Rebasing (src/cache.rs:198 / src/main.rs:914).                          *)
(***************************************************************************)
RECURSIVE rebase_walk(_, _, _)
rebase_walk(nodes, base_rel, map) ==
  IF nodes = <<>> THEN map
  ELSE LET n == Head(nodes)
           rebased == Join(base_rel, n.path)
           m1 == IF n.kind = "dir" THEN rebase_walk(n.entries, base_rel, map)
                 ELSE MapPut(map, rebased,
                             FileEntry(n.name, rebased, n.hash, n.updated_at, n.doc))
       IN rebase_walk(Tail(nodes), base_rel, m1)

\* rebasing that rewrites the key and leaves the path of the entry as it was
RECURSIVE rebase_keeps_path(_, _, _, _)
rebase_keeps_path(child_root_abs, parent_root_abs, tree, map) ==
  IF tree.entries = <<>> THEN map
  ELSE LET n == Head(tree.entries)
           m1 == IF n.kind = "dir"
                 THEN rebase_keeps_path(child_root_abs, parent_root_abs,
                                        [entries |-> n.entries], map)
                 ELSE MapPut(map, Join(DiffPaths(child_root_abs, parent_root_abs), n.path),
                             NodeEntry(n))
       IN rebase_keeps_path(child_root_abs, parent_root_abs,
                            [entries |-> Tail(tree.entries)], m1)

\* rebasing that leaves the paths as the child cache has them
rebase_without_prefix(child_root_abs, parent_root_abs, tree, map) ==
  rebase_walk(tree.entries, <<>>, map)

rebase_child_tree_into_existing_by_path(child_root_abs, parent_root_abs, tree, map) ==
  rebase_walk(tree.entries, DiffPaths(child_root_abs, parent_root_abs), map)

(***************************************************************************)
(* Tree builder (src/cache.rs:281, 322 / src/main.rs:942, 958).            *)
(* reads holds the values the successive calls of Utc::now() return during *)
(* one insertion, one per directory component, in call order: a directory  *)
(* that is created reads the clock before the recursion, a directory that  *)
(* exists reads it after.                                                  *)
(***************************************************************************)
\* insert_recursive whose File node takes the place of a sibling of its name
RECURSIVE insert_recursive_replaces(_, _, _, _)
insert_recursive_replaces(entries, comps, fe, reads) ==
  IF Len(comps) = 1
  THEN LET same == {i \in 1..Len(entries) : entries[i].name = comps[1]}
           file == FileNode(comps[1], fe.path, fe.hash, fe.updated_at, fe.doc)
       IN IF same # {} THEN [entries EXCEPT ![Min(same)] = file]
          ELSE Append(entries, file)
  ELSE LET dir_name == comps[1]
           found == {i \in 1..Len(entries) :
                       entries[i].kind = "dir" /\ entries[i].name = dir_name}
       IN IF found # {}
          THEN LET i == Min(found)
                   sub == insert_recursive_replaces(entries[i].entries, Tail(comps), fe,
                                                    SubSeq(reads, 1, Len(reads) - 1))
               IN [entries EXCEPT ![i] =
                     DirNode(entries[i].name, entries[i].path, reads[Len(reads)], sub)]
          ELSE Append(entries,
                      DirNode(dir_name, SubSeq(comps, 1, 1), reads[1],
                              insert_recursive_replaces(<<>>, Tail(comps), fe, Tail(reads))))

\* insert_recursive that creates a directory for every component
RECURSIVE insert_recursive_creates(_, _, _, _)
insert_recursive_creates(entries, comps, fe, reads) ==
  IF Len(comps) = 1
  THEN Append(entries, FileNode(comps[1], fe.path, fe.hash, fe.updated_at, fe.doc))
  ELSE Append(entries,
              DirNode(comps[1], SubSeq(comps, 1, 1), reads[1],
                      insert_recursive_creates(<<>>, Tail(comps), fe, Tail(reads))))

\* insert_recursive that gives a File node its path below its directory
RECURSIVE insert_recursive_leaf_rel(_, _, _, _)
insert_recursive_leaf_rel(entries, comps, fe, reads) ==
  IF Len(comps) = 1
  THEN Append(entries, FileNode(comps[1], comps, fe.hash, fe.updated_at, fe.doc))
  ELSE LET dir_name == comps[1]
           found == {i \in 1..Len(entries) :
                       entries[i].kind = "dir" /\ entries[i].name = dir_name}
       IN IF found # {}
          THEN LET i == Min(found)
                   sub == insert_recursive_leaf_rel(entries[i].entries, Tail(comps), fe,
                                                    SubSeq(reads, 1, Len(reads) - 1))
               IN [entries EXCEPT ![i] =
                     DirNode(entries[i].name, entries[i].path, reads[Len(reads)], sub)]
          ELSE Append(entries,
                      DirNode(dir_name, SubSeq(comps, 1, 1), reads[1],
                              insert_recursive_leaf_rel(<<>>, Tail(comps), fe, Tail(reads))))

RECURSIVE insert_recursive(_, _, _, _)
insert_recursive(entries, comps, fe, reads) ==
  IF Len(comps) = 1
  THEN Append(entries, FileNode(comps[1], fe.path, fe.hash, fe.updated_at, fe.doc))
  ELSE LET dir_name == comps[1]
           found == {i \in 1..Len(entries) :
                       entries[i].kind = "dir" /\ entries[i].name = dir_name}
       IN IF found # {}
          THEN LET i == Min(found)
                   sub == insert_recursive(entries[i].entries, Tail(comps), fe,
                                           SubSeq(reads, 1, Len(reads) - 1))
               IN [entries EXCEPT ![i] =
                     DirNode(entries[i].name, entries[i].path, reads[Len(reads)], sub)]
          ELSE Append(entries,
                      \* path: comps[..1].join("/")
                      DirNode(dir_name, SubSeq(comps, 1, 1), reads[1],
                              insert_recursive(<<>>, Tail(comps), fe, Tail(reads))))

\* components with every parent-dir component resolved against the one
\* before it
RECURSIVE ResolvedComps(_)
ResolvedComps(rel_path) ==
  IF rel_path = <<>> THEN <<>>
  ELSE LET init == ResolvedComps(SubSeq(rel_path, 1, Len(rel_path) - 1))
           c == rel_path[Len(rel_path)]
       IN IF c = ".." THEN SubSeq(init, 1, Len(init) - 1)
          ELSE IF IsNormal(c) THEN Append(init, c)
          ELSE init

\* Path::components() filtered to Component::Normal
NormalComps(rel_path) == SelectSeq(rel_path, IsNormal)

insert_file_into_tree(entries, rel_path, fe, reads) ==
  LET comps == NormalComps(rel_path)
  IN IF comps = <<>> THEN entries
     ELSE insert_recursive(entries, comps, fe, reads)

(***************************************************************************)
(* The annotation collaborator: template, api::ask with retries, response  *)
(* parsing and sanitising.                                                 *)
(***************************************************************************)
\* src/main.rs:400  ask_with_retry(&cfg, "", &tpl, 5)
MAX_ATTEMPTS == 5

\* src/main.rs:1116  ask_with_retry.  outs[i] is what the i-th call of
\* api::ask would return ("err" or an answer).  The result records the number
\* of calls made and of sleeps taken.
ApiErr == [kind |-> "err"]
EmptyAnswer == [kind |-> "empty"]
Garbage == [kind |-> "garbage"]

\* what ask_with_retry returns after the events of log ("ask": a call of
\* api::ask, "sleep": a backoff sleep)
AskResult(ok, answer, log) ==
  [ok |-> ok, answer |-> answer, log |-> log,
   calls |-> Len(SelectSeq(log, LAMBDA e : e = "ask")),
   sleeps |-> Len(SelectSeq(log, LAMBDA e : e = "sleep"))]

\* the loop of ask_with_retry without the is_last test: it backs off after
\* every failed call
RECURSIVE ask_attempt_backs_off_always(_, _, _, _)
ask_attempt_backs_off_always(outs, attempt, max_attempts, log) ==
  IF attempt > max_attempts
  THEN AskResult(FALSE, EmptyAnswer, log)
  ELSE IF outs[attempt].kind # "err"
  THEN AskResult(TRUE, outs[attempt], Append(log, "ask"))
  ELSE ask_attempt_backs_off_always(outs, attempt + 1, max_attempts,
                                    log \o <<"ask", "sleep">>)

\* src/main.rs:1125-1159: the iterations of `for attempt in 1..=max_attempts`
\* from attempt on, and the Err after the loop
RECURSIVE ask_attempt(_, _, _, _)
ask_attempt(outs, attempt, max_attempts, log) ==
  IF attempt > max_attempts
  THEN AskResult(FALSE, EmptyAnswer, log)
  ELSE IF outs[attempt].kind # "err"
  THEN AskResult(TRUE, outs[attempt], Append(log, "ask"))
  ELSE IF attempt = max_attempts
  THEN AskResult(FALSE, EmptyAnswer, Append(log, "ask"))
  ELSE ask_attempt(outs, attempt + 1, max_attempts, log \o <<"ask", "sleep">>)

ask_with_retry(outs, max_attempts) == ask_attempt(outs, 1, max_attempts, <<>>)

\* descriptions the model may answer with, as words
RawDescriptions == { <<"this", "file", "parses", "config">>, <<"this", "file", "is">> }

\* answers of api::ask: the empty string, text that is no ModelResp, or a
\* ModelResp document
Answers ==
  {EmptyAnswer, Garbage} \cup
  { [kind |-> "resp", fileDescription |-> d, joyThisFileBrings |-> "7",
     personalityEmoji |-> "*"] :
      d \in RawDescriptions }

LeadNouns == {"file", "script", "module"}
LeadVerbs == {"is", "does", "provides", "contains"}
Capitalize(w) == IF w = "parses" THEN "Parses" ELSE w

\* src/main.rs:1016  sanitize_description
sanitize_description(input) ==
  LET s1 == IF Len(input) >= 2 /\ input[1] = "this" /\ input[2] \in LeadNouns
            THEN SubSeq(input, 3, Len(input)) ELSE input
      s2 == IF Len(s1) >= 1 /\ s1[1] \in LeadVerbs THEN Tail(s1) ELSE s1
  IN IF s2 = <<>> THEN s2 ELSE <<Capitalize(s2[1])>> \o Tail(s2)

\* src/main.rs:413-430: the Option<Doc> made of an answer
None == [some |-> FALSE]
Some(d) == [some |-> TRUE, value |-> d]

DocOfAnswer(answer) ==
  IF answer.kind = "empty" THEN None
  ELSE IF answer.kind = "garbage" THEN None
  ELSE Some([fileDescription |-> sanitize_description(answer.fileDescription),
             joyThisFileBrings |-> answer.joyThisFileBrings,
             personalityEmoji |-> answer.personalityEmoji])

\* doc.unwrap_or_default()
UnwrapOrDefault(doc) == IF doc.some THEN doc.value ELSE DefaultDoc

(***************************************************************************)
(* State.                                                                  *)
(***************************************************************************)
VARIABLES
  files,             \* file -> "absent", "unreadable" or its content
  disk,              \* directory -> cache file name -> body of that file
  noRead,            \* the directories that cannot be read
  now,               \* the clock, Utc::now()
  pc,                \* where the run is
  runNo,             \* the number of runs started
  args,              \* Args of the run and its working directory
  existing_by_path,  \* the merged index
  child_cache_dirs,  \* what is left of the discovered sub-cache directories
  toWalk,            \* what the walker has still to yield
  updated_files,     \* the flat map of this run
  new_root,          \* the tree being built
  buildLeft,         \* keys of updated_files not yet handed to the builder
  result,            \* what main returned: "none", "ok", "err"
  trace,             \* history of this run: what was decided for every file
  changed,           \* the files changed on disk since the last run ended
  hist,              \* history of the finished runs
  ask,               \* one call of ask_with_retry: its inputs and its result
  links,             \* the symbolic links to directories: [at, to]
  badEntries,        \* the paths whose directory entry cannot be read
  loop               \* find_child_cache_dirs followed step by step: its
                     \* stack, its out, and the directories popped so far

vars == <<files, disk, noRead, now, pc, runNo, args, existing_by_path,
          child_cache_dirs, toWalk, updated_files, new_root, buildLeft, result,
          trace, changed, hist, ask, links, badEntries, loop>>

(***************************************************************************)
(* Sub-cache discovery (src/cache.rs:121 / src/main.rs:851).               *)
(***************************************************************************)
Range(q) == {q[i] : i \in 1..Len(q)}

\* byte order of the component names of the model
NameRank(c) ==
  CASE c = "a" -> 1 [] c = "b" -> 2 [] c = "c" -> 3 [] c = "proj" -> 4 [] OTHER -> 5

RECURSIVE PathLess(_, _)
PathLess(p, q) ==
  IF p = <<>> THEN q # <<>>
  ELSE IF q = <<>> THEN FALSE
  ELSE IF Head(p) = Head(q) THEN PathLess(Tail(p), Tail(q))
  ELSE NameRank(Head(p)) < NameRank(Head(q))

\* out.sort(); out.dedup()
RECURSIVE SortDedup(_)
SortDedup(S) ==
  IF S = {} THEN <<>>
  ELSE LET m == CHOOSE x \in S : \A y \in S \ {x} : PathLess(x, y)
       IN <<m>> \o SortDedup(S \ {m})

\* the entries of fs::read_dir(dir) that are no regular files: path is
\* entry.path(), ft is entry.file_type() (which does not follow a symbolic
\* link), to is the directory the path leads to
DirEntries(dir) ==
  { [path |-> d, ft |-> "dir", to |-> d] :
      d \in {e \in Dirs : Len(e) = Len(dir) + 1 /\ IsPrefix(dir, e)} }
  \cup
  { [path |-> l.at, ft |-> "symlink", to |-> l.to] :
      l \in {k \in links : SubSeq(k.at, 1, Len(k.at) - 1) = dir} }

\* SubDirs through fs::metadata, which follows a symbolic link
SubDirsFollowingLinks(dir) ==
  {e.to : e \in {x \in DirEntries(dir) : x.path \notin badEntries}}

\* src/main.rs:896-907: the entries of dir that are pushed on the stack;
\* an entry that cannot be read is passed over
SubDirs(dir) ==
  {e.to : e \in {x \in DirEntries(dir) : x.path \notin badEntries /\ x.ft = "dir"}}

\* str::eq_ignore_ascii_case, through the lower-case form of the names
LowerCase(name) == IF name = ".DIRDOCS.NU" THEN ".dirdocs.nu" ELSE name
EqIgnoreAsciiCase(n, name) == LowerCase(n) = LowerCase(name)

\* src/cache.rs:131-149: dir directly holds a file with a recognised name
HasCache(dir) ==
  \E name \in CacheFileNames :
    /\ disk[dir][name].st # "absent"
    /\ dir \o <<name>> \notin badEntries
    /\ \E i \in DOMAIN CHILD_CACHE_NAMES : EqIgnoreAsciiCase(CHILD_CACHE_NAMES[i], name)

\* discover that records a directory with a cache file and goes on below it
RECURSIVE discover_descends(_, _)
discover_descends(stack, out) ==
  IF stack = <<>> THEN out
  ELSE LET dir == stack[Len(stack)]
           rest == SubSeq(stack, 1, Len(stack) - 1)
       IN IF dir \in noRead THEN discover_descends(rest, out)
          ELSE discover_descends(rest \o SortDedup(SubDirs(dir)),
                                 IF HasCache(dir) THEN out \cup {dir} ELSE out)

\* the loop of find_child_cache_dirs: stack is popped at its end; read_dir
\* lists the subdirectories in an order the result does not depend on
RECURSIVE discover(_, _)
discover(stack, out) ==
  IF stack = <<>> THEN out
  ELSE LET dir == stack[Len(stack)]
           rest == SubSeq(stack, 1, Len(stack) - 1)
       IN IF dir \in noRead THEN discover(rest, out)
          ELSE IF HasCache(dir) THEN discover(rest, out \cup {dir})
          ELSE discover(rest \o SortDedup(SubDirs(dir)), out)

\* find_child_cache_dirs that starts in the subdirectories of the root
find_child_cache_dirs_below(parent_root) ==
  SortDedup(discover(SortDedup(SubDirs(parent_root)), {}))

find_child_cache_dirs(parent_root) == SortDedup(discover(<<parent_root>>, {}))

\* the directories the loop of find_child_cache_dirs pops and hands to
\* fs::read_dir
RECURSIVE listed_dirs(_, _)
listed_dirs(stack, seen) ==
  IF stack = <<>> THEN seen
  ELSE LET dir == stack[Len(stack)]
           rest == SubSeq(stack, 1, Len(stack) - 1)
       IN IF dir \in noRead THEN listed_dirs(rest, seen \cup {dir})
          ELSE IF HasCache(dir) THEN listed_dirs(rest, seen \cup {dir})
          ELSE listed_dirs(rest \o SortDedup(SubDirs(dir)), seen \cup {dir})

(***************************************************************************)
(* The walker (src/main.rs:216-242): every file below root that is not     *)
(* hidden and not below a directory named in the ignore set; a directory   *)
(* that cannot be read yields a walk error.                                *)
(***************************************************************************)
IsHidden(name) == name \in CacheFileNames

Last(p) == p[Len(p)]
Parent(p) == SubSeq(p, 1, Len(p) - 1)

\* the walk reaches directory d: no component below root is ignored and
\* every directory above it can be read
Reached(d, root, ignore_set) ==
  /\ IsPrefix(root, d)
  /\ \A k \in (Len(root) + 1)..Len(d) : d[k] \notin ignore_set
  /\ \A k \in Len(root)..(Len(d) - 1) : SubSeq(d, 1, k) \notin noRead

CachePaths == {d \o <<n>> : d \in Dirs, n \in CacheFileNames}

OnDisk(p) ==
  IF p \in Files THEN files[p] # "absent"
  ELSE disk[Parent(p)][Last(p)].st # "absent"

WalkItems(root, ignore_set) ==
  { [err |-> FALSE, path |-> f] :
      f \in {g \in Files \cup CachePaths :
                           /\ OnDisk(g)
                           /\ ~IsHidden(Last(g))
                           /\ Reached(Parent(g), root, ignore_set)
                           /\ Parent(g) \notin noRead} }
  \cup
  { [err |-> TRUE, path |-> d] :
      d \in {e \in Dirs : Reached(e, root, ignore_set) /\ e \in noRead} }

(***************************************************************************)
(* Initial states: the project before the first run.                       *)
(***************************************************************************)
GoodDoc ==
  [fileDescription |-> <<"Parses", "config">>, joyThisFileBrings |-> "7",
   personalityEmoji |-> "*"]

\* a doc as an older version wrote it, under the legacy key names
LegacyJsonDoc ==
  [fileDescription |-> <<"Old", "notes">>, howMuchJoyDoesThisFileBringYou |-> "3",
   emojiThatExpressesThisFilesPersonality |-> "o"]

\* the cache a run rooted at proj/a/b wrote
SubCacheB ==
  Document([root |-> <<".">>, updated_at |-> 0, entries |->
    << FileNode("y", <<"y">>, Blake3("c1"), 0, GoodDoc) >>])

\* the cache an older version wrote in proj/c
SubCacheC ==
  Document([root |-> <<"c">>, updated_at |-> 0, entries |->
    << [kind |-> "file", name |-> "z", path |-> <<"z">>, hash |-> Blake3("c1"),
        updated_at |-> 0, doc |-> LegacyJsonDoc] >>])

\* the cache a run rooted at proj/a wrote when y held other content
SubCacheA ==
  Document([root |-> <<"a">>, updated_at |-> 0, entries |->
    << DirNode("b", <<"b">>, 0,
         << FileNode("y", <<"b", "y">>, Blake3("c0"), 0, GoodDoc) >>) >>])

\* the cache an earlier run rooted at proj wrote; the annotation of z failed
RootCache ==
  Document([root |-> <<".">>, updated_at |-> 0, entries |->
    << DirNode("a", <<"a">>, 0,
         << DirNode("b", <<"b">>, 0,
              << FileNode("y", <<"a", "b", "y">>, Blake3("c1"), 0, GoodDoc) >>) >>),
       DirNode("c", <<"c">>, 0,
         << FileNode("z", <<"c", "z">>, Blake3("c1"), 0, DefaultDoc) >>) >>])

\* a root cache that names a/b/y twice: a stale entry in its directory and
\* a current one at the top
RootCacheTwice ==
  Document([root |-> <<".">>, updated_at |-> 0, entries |->
    << DirNode("a", <<"a">>, 0,
         << DirNode("b", <<"b">>, 0,
              << FileNode("y", <<"a", "b", "y">>, Blake3("c0"), 0, DefaultDoc) >>) >>),
       FileNode("y", <<"a", "b", "y">>, Blake3("c1"), 0, GoodDoc),
       FileNode("z", <<"c", "z">>, Blake3("c1"), 0, GoodDoc) >>])

\* the cache an earlier run rooted at proj wrote before a/b/y existed
RootCacheZ ==
  Document([root |-> <<".">>, updated_at |-> 0, entries |->
    << DirNode("c", <<"c">>, 0,
         << FileNode("z", <<"c", "z">>, Blake3("c1"), 0, GoodDoc) >>) >>])

NoCaches == [d \in Dirs |-> [n \in CacheFileNames |-> Absent]]

WithCache(dk, d, n, body) == [dk EXCEPT ![d][n] = body]

DiskChoices ==
  { NoCaches,
    WithCache(NoCaches, ProjRoot, ".dirdocs.nu", Malformed),
    WithCache(NoCaches, ProjRoot, ".dirdocs.nu", RootCache),
    WithCache(NoCaches, ProjRoot, ".dirdocs.nu", RootCacheTwice),
    WithCache(WithCache(NoCaches, ProjRoot, ".dirdocs.nu", RootCacheZ),
              DirB, ".dirdocs.nu", SubCacheB),
    WithCache(WithCache(NoCaches, DirB, ".dirdocs.nu", SubCacheB),
              DirC, ".dir.nuon", SubCacheC),
    WithCache(WithCache(NoCaches, DirB, ".dirdocs.nu", SubCacheB),
              DirA, ".dirdocs.nu", SubCacheA),
    WithCache(WithCache(NoCaches, DirB, ".dirdocs.nu", Unreadable),
              DirC, ".DIRDOCS.NU", SubCacheC) }

FileChoices ==
  { [f \in Files |-> "c1"],
    [f \in Files |-> IF f = FZ THEN "unreadable" ELSE "c1"],
    [f \in Files |-> IF f = FY THEN "absent" ELSE "c1"] }

NoReadChoices == { {}, {DirC} }

EmptyTrace ==
  [hashFailed |-> {}, reused |-> {}, regenerated |-> {}, asked |-> {},
   inserted |-> {}, walkErrors |-> 0, changedBefore |-> {}, loadFailed |-> {},
   loads |-> {}, startDisk |-> NoCaches, discovered |-> <<>>, listed |-> {}]

\* find_child_cache_dirs is not followed step by step
NoLoop == [stack |-> <<>>, out |-> <<>>, popped |-> <<>>]

\* no call of ask_with_retry is followed on its own
NoAsk == [outs |-> <<>>, max_attempts |-> 0, returned |-> FALSE,
          ret |-> AskResult(FALSE, EmptyAnswer, <<>>)]

NoArgs == [force |-> FALSE, cwd |-> ProjRoot, ignore |-> {}]

Init ==
  /\ files \in FileChoices
  /\ disk \in DiskChoices
  /\ noRead \in NoReadChoices
  /\ now = 1
  /\ pc = "idle"
  /\ runNo = 0
  /\ args = NoArgs
  /\ existing_by_path = EmptyMap
  /\ child_cache_dirs = <<>>
  /\ toWalk = {}
  /\ updated_files = EmptyMap
  /\ new_root = DirdocsRoot(<<".">>, 0, <<>>)
  /\ buildLeft = {}
  /\ result = "none"
  /\ trace = EmptyTrace
  /\ changed = {}
  /\ hist = <<>>
  /\ ask = NoAsk
  /\ links = {}
  /\ badEntries = {}
  /\ loop = NoLoop

(***************************************************************************)
(* The run (src/main.rs:119-471).                                          *)
(***************************************************************************)
\* src/main.rs:131  the canonicalised --directory
root == ProjRoot

\* the command lines of the model: --force, the working directory, --ignore
ArgChoices ==
  { [force |-> FALSE, cwd |-> ProjRoot, ignore |-> {}],
    [force |-> TRUE, cwd |-> ProjRoot, ignore |-> {}],
    [force |-> FALSE, cwd |-> DirA, ignore |-> {}],
    [force |-> FALSE, cwd |-> ProjRoot, ignore |-> {"c"}] }

\* src/main.rs:138-146
root_label == rel_label(root, args.cwd)

\* Path::exists for a cache file name in a directory
Exists(dir, name) == disk[dir][name].st # "absent"

\* src/main.rs:128-146: the arguments are parsed and the run starts
Begin(a) ==
  /\ runNo' = runNo + 1
  /\ args' = a
  /\ pc' = "load"
  /\ result' = "none"
  /\ existing_by_path' = EmptyMap
  /\ child_cache_dirs' = <<>>
  /\ toWalk' = {}
  /\ updated_files' = EmptyMap
  /\ new_root' = DirdocsRoot(<<".">>, 0, <<>>)
  /\ buildLeft' = {}
  /\ trace' = [EmptyTrace EXCEPT !.changedBefore = changed, !.startDisk = disk]
  /\ changed' = {}
  /\ UNCHANGED <<ask, links, badEntries, loop, files, disk, noRead, now, hist>>

StartRun(a) ==
  /\ pc = "idle"
  /\ Begin(a)

\* the command is run a second time on the same root, from the same working
\* directory, after a first run that wrote its cache
Rerun(force) ==
  /\ pc = "done" /\ runNo = 1
  /\ hist[1].completed /\ hist[1].writeOk
  /\ Begin([args EXCEPT !.force = force])

\* src/main.rs:149-169: the configuration, the template or the README cannot
\* be read and main returns the error before anything is loaded
SetupFails ==
  /\ pc = "load"
  /\ pc' = "done"
  /\ result' = "err"
  /\ hist' = Append(hist, [completed |-> FALSE, force |-> args.force,
                           writeOk |-> FALSE, doc |-> ToJson(new_root),
                           run |-> trace])
  /\ UNCHANGED <<ask, links, badEntries, loop, files, disk, noRead, now, runNo, args, existing_by_path,
                 child_cache_dirs, toWalk, updated_files, new_root, buildLeft,
                 trace, changed>>

\* src/main.rs:176-187: the root cache is loaded and indexed
LoadRoot ==
  /\ pc = "load"
  /\ LET body == disk[root][DIRDOCS_NU]
         existing_tree == load_existing_tree(body, root, args.cwd, now)
     IN /\ existing_by_path' = index_files_by_path(existing_tree.entries, EmptyMap)
        /\ trace' = [trace EXCEPT
                       !.loadFailed =
                         IF ReadFails(body) \/ ParseFails(body) THEN @ \cup {root} ELSE @,
                       !.loads = @ \cup {[dir |-> root, name |-> DIRDOCS_NU,
                                          tree |-> existing_tree]}]
  /\ pc' = "discover"
  /\ UNCHANGED <<ask, links, badEntries, loop, files, disk, noRead, now, runNo, args, child_cache_dirs, toWalk,
                 updated_files, new_root, buildLeft, result, changed, hist>>

\* src/main.rs:190
Discover ==
  /\ pc = "discover"
  /\ child_cache_dirs' = find_child_cache_dirs(root)
  /\ trace' = [trace EXCEPT !.discovered = find_child_cache_dirs(root),
                            !.listed = listed_dirs(<<root>>, {})]
  /\ pc' = "merge"
  /\ UNCHANGED <<ask, links, badEntries, loop, files, disk, noRead, now, runNo, args, existing_by_path, toWalk,
                 updated_files, new_root, buildLeft, result, changed, hist>>

\* src/main.rs:193-196: the first of CHILD_CACHE_NAMES that exists in dir
FoundNames(dir) == {i \in DOMAIN CHILD_CACHE_NAMES : Exists(dir, CHILD_CACHE_NAMES[i])}

\* src/main.rs:192-210: one iteration of the merge loop, cache file found
MergeChild ==
  /\ pc = "merge"
  /\ child_cache_dirs # <<>>
  /\ LET child_abs == Head(child_cache_dirs)
     IN /\ FoundNames(child_abs) # {}
        /\ LET body == disk[child_abs][CHILD_CACHE_NAMES[Min(FoundNames(child_abs))]]
               child_tree == load_existing_tree(body, child_abs, args.cwd, now)
           IN /\ existing_by_path' =
                   rebase_child_tree_into_existing_by_path(child_abs, root, child_tree,
                                                           existing_by_path)
              /\ trace' = [trace EXCEPT
                             !.loadFailed =
                               IF ReadFails(body) \/ ParseFails(body)
                               THEN @ \cup {child_abs} ELSE @,
                             !.loads = @ \cup
                               {[dir |-> child_abs,
                                 name |-> CHILD_CACHE_NAMES[Min(FoundNames(child_abs))],
                                 tree |-> child_tree]}]
  /\ child_cache_dirs' = Tail(child_cache_dirs)
  /\ UNCHANGED <<ask, links, badEntries, loop, files, disk, noRead, now, pc, runNo, args, toWalk, updated_files,
                 new_root, buildLeft, result, changed, hist>>

\* src/main.rs:211-213: one iteration of the merge loop, no cache file found
MergeChildMissing ==
  /\ pc = "merge"
  /\ child_cache_dirs # <<>>
  /\ FoundNames(Head(child_cache_dirs)) = {}
  /\ child_cache_dirs' = Tail(child_cache_dirs)
  /\ UNCHANGED <<ask, links, badEntries, loop, files, disk, noRead, now, pc, runNo, args, existing_by_path, toWalk,
                 updated_files, new_root, buildLeft, result, trace, changed, hist>>

\* BuildWalker that does not wait for the end of the merge loop
BuildWalkerEarly ==
  /\ pc = "merge"
  /\ toWalk' = WalkItems(root, args.ignore)
  /\ pc' = "scan"
  /\ UNCHANGED <<ask, links, badEntries, loop, files, disk, noRead, now, runNo, args, existing_by_path,
                 child_cache_dirs, updated_files, new_root, buildLeft, result, trace,
                 changed, hist>>

\* src/main.rs:216-248: the walker is built
BuildWalker ==
  /\ pc = "merge"
  /\ child_cache_dirs = <<>>
  /\ toWalk' = WalkItems(root, args.ignore)
  /\ pc' = "scan"
  /\ UNCHANGED <<ask, links, badEntries, loop, files, disk, noRead, now, runNo, args, existing_by_path,
                 child_cache_dirs, updated_files, new_root, buildLeft, result, trace,
                 changed, hist>>

(***************************************************************************)
(* The scan loop (src/main.rs:249-441): one action per way an iteration    *)
(* can go.                                                                 *)
(***************************************************************************)
\* src/main.rs:791  hash_file
hash_file(path) ==
  IF files[path] = "unreadable" THEN [ok |-> FALSE]
  ELSE [ok |-> TRUE, value |-> Blake3(files[path])]

\* src/main.rs:263-264
rel_str_of(path) == DiffPaths(path, root)

\* CanReuse without the test of the stored description
CanReuseAnyDescription(rel_str, file_hash) ==
  /\ rel_str \in DOMAIN existing_by_path
  /\ ~args.force
  /\ existing_by_path[rel_str].hash = file_hash

\* CanReuse without the comparison of the hashes
CanReuseAnyHash(rel_str, file_hash) ==
  /\ rel_str \in DOMAIN existing_by_path
  /\ ~args.force
  /\ existing_by_path[rel_str].doc.fileDescription # <<>>

\* src/main.rs:284-285: the previous entry can be reused
CanReuse(rel_str, file_hash) ==
  /\ rel_str \in DOMAIN existing_by_path
  /\ ~args.force
  /\ existing_by_path[rel_str].hash = file_hash
  /\ existing_by_path[rel_str].doc.fileDescription # <<>>

\* ReusedEntry with the timestamp refreshed
ReusedEntryRefreshed(name, rel_str, file_hash, prev) ==
  FileEntry(name, rel_str, file_hash, now, prev.doc)

\* src/main.rs:289-295: the entry a reuse inserts
ReusedEntry(name, rel_str, file_hash, prev) ==
  FileEntry(name, rel_str, file_hash, prev.updated_at, prev.doc)

\* src/main.rs:432-438: the entry a regeneration inserts
FreshEntry(name, rel_str, file_hash, updated_at, doc) ==
  FileEntry(name, rel_str, file_hash, updated_at, UnwrapOrDefault(doc))

Consume(it) == toWalk' = toWalk \ {it}

\* WalkError that returns the error from main
WalkErrorEscapes(it) ==
  /\ pc = "scan" /\ it \in toWalk /\ it.err
  /\ pc' = "done"
  /\ result' = "err"
  /\ hist' = Append(hist, [completed |-> FALSE, force |-> args.force,
                           writeOk |-> FALSE, doc |-> ToJson(new_root),
                           run |-> trace])
  /\ UNCHANGED <<ask, links, badEntries, loop, files, disk, noRead, now, runNo, args, existing_by_path,
                 child_cache_dirs, toWalk, updated_files, new_root, buildLeft,
                 trace, changed>>

\* src/main.rs:250-256
WalkError(it) ==
  /\ pc = "scan" /\ it \in toWalk /\ it.err
  /\ Consume(it)
  /\ trace' = [trace EXCEPT !.walkErrors = @ + 1]
  /\ UNCHANGED <<ask, links, badEntries, loop, files, disk, noRead, now, pc, runNo, args, existing_by_path,
                 child_cache_dirs, updated_files, new_root, buildLeft, result,
                 changed, hist>>

\* HashFails that carries the stale entry of the index forward
HashFailsKeepsStale(it) ==
  /\ pc = "scan" /\ it \in toWalk /\ ~it.err
  /\ ~hash_file(it.path).ok
  /\ Consume(it)
  /\ trace' = [trace EXCEPT !.hashFailed = @ \cup {rel_str_of(it.path)}]
  /\ updated_files' =
       IF rel_str_of(it.path) \in DOMAIN existing_by_path
       THEN MapPut(updated_files, rel_str_of(it.path),
                   existing_by_path[rel_str_of(it.path)])
       ELSE updated_files
  /\ UNCHANGED <<ask, links, badEntries, loop, files, disk, noRead, now, pc, runNo, args, existing_by_path,
                 child_cache_dirs, new_root, buildLeft, result, changed, hist>>

\* src/main.rs:274-280
HashFails(it) ==
  /\ pc = "scan" /\ it \in toWalk /\ ~it.err
  /\ ~hash_file(it.path).ok
  /\ Consume(it)
  /\ trace' = [trace EXCEPT !.hashFailed = @ \cup {rel_str_of(it.path)}]
  /\ UNCHANGED <<ask, links, badEntries, loop, files, disk, noRead, now, pc, runNo, args, existing_by_path,
                 child_cache_dirs, updated_files, new_root, buildLeft, result,
                 changed, hist>>

\* src/main.rs:284-297
Reuse(it) ==
  /\ pc = "scan" /\ it \in toWalk /\ ~it.err
  /\ hash_file(it.path).ok
  /\ LET rel_str == rel_str_of(it.path)
         file_hash == hash_file(it.path).value
     IN /\ CanReuse(rel_str, file_hash)
        /\ updated_files' =
             MapPut(updated_files, rel_str,
                    ReusedEntry(Last(it.path), rel_str, file_hash,
                                existing_by_path[rel_str]))
        /\ trace' = [trace EXCEPT !.reused = @ \cup {rel_str},
                                  !.inserted = @ \cup {rel_str}]
  /\ Consume(it)
  /\ UNCHANGED <<ask, links, badEntries, loop, files, disk, noRead, now, pc, runNo, args, existing_by_path,
                 child_cache_dirs, new_root, buildLeft, result, changed, hist>>

\* the iteration goes past the reuse test (src/main.rs:298-308)
Regenerates(it) ==
  /\ pc = "scan" /\ it \in toWalk /\ ~it.err
  /\ hash_file(it.path).ok
  /\ ~CanReuse(rel_str_of(it.path), hash_file(it.path).value)

\* src/main.rs:374-383: hbs.render_template fails
RenderFails(it) ==
  /\ Regenerates(it)
  /\ Consume(it)
  /\ trace' = [trace EXCEPT !.regenerated = @ \cup {rel_str_of(it.path)}]
  /\ UNCHANGED <<ask, links, badEntries, loop, files, disk, noRead, now, pc, runNo, args, existing_by_path,
                 child_cache_dirs, updated_files, new_root, buildLeft, result,
                 changed, hist>>

\* src/main.rs:385-394: the rendered template is no ChatTemplate
TemplateParseFails(it) ==
  /\ Regenerates(it)
  /\ Consume(it)
  /\ trace' = [trace EXCEPT !.regenerated = @ \cup {rel_str_of(it.path)}]
  /\ UNCHANGED <<ask, links, badEntries, loop, files, disk, noRead, now, pc, runNo, args, existing_by_path,
                 child_cache_dirs, updated_files, new_root, buildLeft, result,
                 changed, hist>>

\* how many calls of api::ask fail before one answers
FailCounts == {0, MAX_ATTEMPTS - 1, MAX_ATTEMPTS}

\* src/main.rs:396-440: the annotation is asked for and an entry inserted
Annotate(it, nfail, ans) ==
  /\ Regenerates(it)
  /\ LET rel_str == rel_str_of(it.path)
         updated_at == now
         outs == [i \in 1..MAX_ATTEMPTS |-> IF i <= nfail THEN ApiErr ELSE ans]
         asked == ask_with_retry(outs, MAX_ATTEMPTS)
         answer == IF asked.ok THEN asked.answer ELSE EmptyAnswer
         doc == DocOfAnswer(answer)
     IN /\ updated_files' =
             MapPut(updated_files, rel_str,
                    FreshEntry(Last(it.path), rel_str, hash_file(it.path).value,
                               updated_at, doc))
        /\ trace' = [trace EXCEPT !.regenerated = @ \cup {rel_str},
                                  !.asked = @ \cup {rel_str},
                                  !.inserted = @ \cup {rel_str}]
  /\ Consume(it)
  /\ UNCHANGED <<ask, links, badEntries, loop, files, disk, noRead, now, pc, runNo, args, existing_by_path,
                 child_cache_dirs, new_root, buildLeft, result, changed, hist>>

(***************************************************************************)
(* Build and write (src/main.rs:443-470).                                  *)
(***************************************************************************)
\* FinishWalk that starts the new tree from the entries of the loaded one
FinishWalkKeepsTree ==
  /\ pc = "scan" /\ toWalk = {}
  /\ new_root' =
       DirdocsRoot(root_label, now,
                   load_existing_tree(trace.startDisk[root][DIRDOCS_NU], root,
                                      args.cwd, now).entries)
  /\ buildLeft' = DOMAIN updated_files
  /\ pc' = "build"
  /\ UNCHANGED <<ask, links, badEntries, loop, files, disk, noRead, now, runNo, args, existing_by_path,
                 child_cache_dirs, toWalk, updated_files, result, trace, changed,
                 hist>>

\* FinishWalk that hands the entries of the merged index of files the scan
\* did not insert on to the build
FinishWalkCarriesIndex ==
  /\ pc = "scan" /\ toWalk = {}
  /\ new_root' = DirdocsRoot(root_label, now, <<>>)
  /\ updated_files' =
       [k \in DOMAIN existing_by_path \cup DOMAIN updated_files |->
          IF k \in DOMAIN updated_files THEN updated_files[k] ELSE existing_by_path[k]]
  /\ buildLeft' = DOMAIN existing_by_path \cup DOMAIN updated_files
  /\ pc' = "build"
  /\ UNCHANGED <<ask, links, badEntries, loop, files, disk, noRead, now, runNo, args, existing_by_path,
                 child_cache_dirs, toWalk, result, trace, changed, hist>>

\* src/main.rs:443-454
FinishWalk ==
  /\ pc = "scan" /\ toWalk = {}
  /\ new_root' = DirdocsRoot(root_label, now, <<>>)
  /\ buildLeft' = DOMAIN updated_files
  /\ pc' = "build"
  /\ UNCHANGED <<ask, links, badEntries, loop, files, disk, noRead, now, runNo, args, existing_by_path,
                 child_cache_dirs, toWalk, updated_files, result, trace, changed,
                 hist>>

\* what n successive calls of Utc::now() may return
ClockReads(n) ==
  {r \in [1..n -> now..MaxClock] : \A i \in 1..(n - 1) : r[i] <= r[i + 1]}

\* BuildInsert that saves the tree to the cache file after every insertion
BuildInsertSaves(rel_path, reads) ==
  /\ pc = "build" /\ rel_path \in buildLeft
  /\ new_root' = [new_root EXCEPT !.entries =
                    insert_file_into_tree(@, rel_path, updated_files[rel_path], reads)]
  /\ buildLeft' = buildLeft \ {rel_path}
  /\ now' = IF reads = <<>> THEN now ELSE reads[Len(reads)]
  /\ disk' = [disk EXCEPT ![root][DIRDOCS_NU] = Document(ToJson(new_root'))]
  /\ UNCHANGED <<ask, links, badEntries, loop, files, noRead, pc, runNo, args, existing_by_path,
                 child_cache_dirs, toWalk, updated_files, result, trace, changed,
                 hist>>

\* src/main.rs:456-458: one iteration over the HashMap, in whatever order it
\* iterates
BuildInsert(rel_path, reads) ==
  /\ pc = "build" /\ rel_path \in buildLeft
  /\ new_root' = [new_root EXCEPT !.entries =
                    insert_file_into_tree(@, rel_path, updated_files[rel_path], reads)]
  /\ buildLeft' = buildLeft \ {rel_path}
  /\ now' = IF reads = <<>> THEN now ELSE reads[Len(reads)]
  /\ UNCHANGED <<ask, links, badEntries, loop, files, disk, noRead, pc, runNo, args, existing_by_path,
                 child_cache_dirs, toWalk, updated_files, result, trace, changed,
                 hist>>

\* src/cache.rs:76  write_tree: an error of fs::write is returned
write_tree(write_ok) == IF write_ok THEN "ok" ELSE "err"

\* src/main.rs:461-470: both arms of the match log, then main returns Ok(())
main_result(write_ok) == "ok"

FinishRun(write_ok) ==
  /\ pc' = "done"
  /\ result' = main_result(write_ok)
  /\ hist' = Append(hist, [completed |-> TRUE, force |-> args.force,
                           writeOk |-> write_ok, doc |-> ToJson(new_root),
                           run |-> trace])
  /\ UNCHANGED <<ask, links, badEntries, loop, files, noRead, now, runNo, args, existing_by_path,
                 child_cache_dirs, toWalk, updated_files, new_root, buildLeft,
                 trace, changed>>

\* fs::write replaces the content of root/.dirdocs.nu
WriteOk ==
  /\ pc = "build" /\ buildLeft = {}
  /\ disk' = [disk EXCEPT ![root][DIRDOCS_NU] = Document(ToJson(new_root))]
  /\ FinishRun(TRUE)

\* fs::write fails to open the file: nothing is written
WriteFailsAtOpen ==
  /\ pc = "build" /\ buildLeft = {}
  /\ disk' = disk
  /\ FinishRun(FALSE)

\* fs::write fails after truncating the file: a partial document is left
WriteFailsPartway ==
  /\ pc = "build" /\ buildLeft = {}
  /\ disk' = [disk EXCEPT ![root][DIRDOCS_NU] = Malformed]
  /\ FinishRun(FALSE)

(***************************************************************************)
(* The environment: time passes, and files change between two runs.        *)
(***************************************************************************)
\* The clock is read by the scan loop, by the build and by nothing before
\* them, so time that passes earlier (between two runs as well) is time
\* that passes when the scan starts.
Tick ==
  /\ pc = "scan"
  /\ now < MaxClock
  /\ now' = now + 1
  /\ UNCHANGED <<ask, links, badEntries, loop, files, disk, noRead, pc, runNo, args, existing_by_path,
                 child_cache_dirs, toWalk, updated_files, new_root, buildLeft,
                 result, trace, changed, hist>>

\* a file is rewritten, or its permissions are taken away
FileStates == Contents \cup {"unreadable"}

ChangeFile(f, st) ==
  /\ pc = "done" /\ runNo = 1
  /\ hist[1].completed /\ hist[1].writeOk
  /\ f \notin changed
  /\ st # files[f]
  /\ files' = [files EXCEPT ![f] = st]
  /\ changed' = changed \cup {f}
  /\ UNCHANGED <<ask, links, badEntries, loop, disk, noRead, now, pc, runNo, args, existing_by_path,
                 child_cache_dirs, toWalk, updated_files, new_root, buildLeft,
                 result, trace, hist>>

Next ==
  \/ \E a \in ArgChoices : StartRun(a)
  \/ SetupFails
  \/ LoadRoot
  \/ Discover
  \/ MergeChild
  \/ MergeChildMissing
  \/ BuildWalker
  \/ \E it \in toWalk : WalkError(it)
  \/ \E it \in toWalk : HashFails(it)
  \/ \E it \in toWalk : Reuse(it)
  \/ \E it \in toWalk : RenderFails(it)
  \/ \E it \in toWalk : TemplateParseFails(it)
  \/ \E it \in toWalk, nfail \in FailCounts, ans \in Answers : Annotate(it, nfail, ans)
  \/ FinishWalk
  \/ \E k \in buildLeft :
       \E reads \in ClockReads(Len(NormalComps(k)) - 1) : BuildInsert(k, reads)
  \/ WriteOk
  \/ WriteFailsAtOpen
  \/ WriteFailsPartway
  \/ Tick

\* one run of the command on any of the initial projects
Spec == Init /\ [][Next]_vars

(***************************************************************************)
(* Two runs in succession on a project without caches.                     *)
(***************************************************************************)
InitTwice ==
  /\ Init
  /\ files = [f \in Files |-> "c1"]
  /\ disk = NoCaches
  /\ noRead = {}

NextTwice ==
  \/ StartRun(NoArgs)
  \/ SetupFails
  \/ LoadRoot
  \/ Discover
  \/ MergeChild
  \/ BuildWalker
  \/ \E it \in toWalk : HashFails(it)
  \/ \E it \in toWalk : Reuse(it)
  \/ \E it \in toWalk : RenderFails(it)
  \/ \E it \in toWalk : TemplateParseFails(it)
  \/ \E it \in toWalk, nfail \in FailCounts, ans \in Answers : Annotate(it, nfail, ans)
  \/ FinishWalk
  \/ \E k \in buildLeft :
       \E reads \in ClockReads(Len(NormalComps(k)) - 1) : BuildInsert(k, reads)
  \/ WriteOk
  \/ WriteFailsAtOpen
  \/ WriteFailsPartway
  \/ Tick
  \/ \E f \in Files, st \in FileStates : ChangeFile(f, st)
  \/ \E force \in BOOLEAN : Rerun(force)

SpecTwice == InitTwice /\ [][NextTwice]_vars

(***************************************************************************)
(* Properties.                                                             *)
(***************************************************************************)
\* the File nodes at any depth of a forest
RECURSIVE FileNodesOf(_)
FileNodesOf(nodes) ==
  UNION { IF nodes[i].kind = "dir" THEN FileNodesOf(nodes[i].entries) ELSE {nodes[i]} :
            i \in 1..Len(nodes) }

\* the run went through its scan loop and its final write step
Completed == pc = "done" /\ hist[Len(hist)].completed

\* the scan loop has been through file f in this run
Processed(f) ==
  /\ pc \in {"scan", "build"} \/ Completed
  /\ [err |-> FALSE, path |-> f] \in WalkItems(root, args.ignore) \ toWalk

RelY == <<"a", "b", "y">>
RelZ == <<"c", "z">>

\* C1: a walked file whose hash succeeds is reused, with no annotation call,
\* exactly when the merged index has an entry under its relative path, the
\* force flag is not set, the stored hash equals the fresh hash and the stored
\* description is not empty; in every other case regeneration is started, and
\* with the force flag nothing is reused.
C1_ReuseIff ==
  \A f \in Files :
    (Processed(f) /\ files[f] # "unreadable") =>
      LET rel == DiffPaths(f, ProjRoot)
          clean == /\ rel \in DOMAIN existing_by_path
                   /\ ~args.force
                   /\ existing_by_path[rel].hash = Blake3(files[f])
                   /\ existing_by_path[rel].doc.fileDescription # <<>>
      IN /\ (rel \in trace.reused) <=> clean
         /\ (rel \in trace.regenerated) <=> ~clean
         /\ rel \in trace.reused => rel \notin trace.asked
         /\ args.force => rel \notin trace.reused

\* one file is reused while another, stored with the same hash but an empty
\* description, is regenerated
C1_Witness ==
  /\ pc = "done"
  /\ RelY \in trace.reused
  /\ RelZ \in trace.regenerated
  /\ RelZ \in DOMAIN existing_by_path
  /\ existing_by_path[RelZ].hash = Blake3(files[FZ])

\* C2: the entry a reuse puts into updated_files has the previous entry's
\* updated_at and doc and the stored hash; its updated_at is not the time of
\* the run.
C2_ReusePreserves ==
  \A rel \in trace.reused :
    /\ rel \in DOMAIN updated_files
    /\ updated_files[rel].updated_at = existing_by_path[rel].updated_at
    /\ updated_files[rel].doc = existing_by_path[rel].doc
    /\ updated_files[rel].hash = existing_by_path[rel].hash

\* a file reused at a time later than the time its annotation was made
C2_Witness ==
  /\ RelY \in trace.reused
  /\ existing_by_path[RelY].updated_at < now

\* the last run ended with its cache written
Wrote == Completed /\ hist[Len(hist)].writeOk

\* the document the last run wrote
Written == disk[ProjRoot][".dirdocs.nu"].doc

\* C3 (as claimed): a second run with no change on disk and no force flag
\* writes the document of the first run again, the root updated_at aside.
C3_Idempotent ==
  ( /\ pc = "done" /\ runNo = 2 /\ Len(hist) = 2
    /\ hist[2].completed /\ hist[2].writeOk
    /\ ~hist[2].force
    /\ hist[2].run.changedBefore = {} )
  => /\ hist[2].doc.root = hist[1].doc.root
     /\ hist[2].doc.entries = hist[1].doc.entries

\* the first run stored a description for every file of the project
FirstRunDescribedAll ==
  \A f \in Files :
    \E n \in FileNodesOf(hist[1].doc.entries) :
      n.path = DiffPaths(f, ProjRoot) /\ n.doc.fileDescription # <<>>

\* C4: when the first run stored a description for every file and only the
\* content of the files of a set S changed before the second run (no force
\* flag), the second run regenerates exactly the files of S and reuses no
\* stored doc for a file of S.
C4_HashInvalidation ==
  ( /\ runNo = 2 /\ ~args.force
    /\ FirstRunDescribedAll
    /\ \A f \in trace.changedBefore : files[f] \in Contents )
  => /\ \A f \in Files :
          Processed(f) =>
            /\ (DiffPaths(f, ProjRoot) \in trace.regenerated) <=> (f \in trace.changedBefore)
            /\ f \in trace.changedBefore => DiffPaths(f, ProjRoot) \notin trace.reused
     /\ (pc = "build" \/ Completed) =>
          trace.regenerated = {DiffPaths(f, ProjRoot) : f \in trace.changedBefore}

\* the second run regenerated the one file that was rewritten and reused the other
C4_Witness ==
  /\ runNo = 2 /\ ~args.force /\ Completed
  /\ FirstRunDescribedAll
  /\ trace.changedBefore = {FY} /\ files[FY] = "c2"
  /\ trace.regenerated = {RelY}
  /\ trace.reused = {RelZ}

\* no file of directory d has the name of a cache file, in any case
NoCacheFileAt(dk, d) == \A n \in CacheFileNames : dk[d][n].st = "absent"

\* the cache file of directory d: .dirdocs.nu, or .dir.nuon when there is none
CacheFileAt(dk, d) ==
  IF dk[d][".dirdocs.nu"].st # "absent" THEN dk[d][".dirdocs.nu"] ELSE dk[d][".dir.nuon"]

\* d holds a valid cache file whose entries are clean: each names a file on
\* disk with the stored hash and has a description
CleanSubCache(dk, d) ==
  /\ CacheFileAt(dk, d).st = "ok"
  /\ LET nodes == FileNodesOf(CacheFileAt(dk, d).doc.entries)
     IN /\ nodes # {}
        /\ \A n \in nodes :
             /\ d \o n.path \in Files
             /\ files[d \o n.path] \in Contents
             /\ n.hash = Blake3(files[d \o n.path])
             /\ "doc" \in DOMAIN n
             /\ n.doc.fileDescription # <<>>
        /\ \A n1, n2 \in nodes : n1.path = n2.path => n1 = n2

\* entry n of the cache of d went into the written root cache without an
\* annotation call
Absorbed(d, n) ==
  LET key == DiffPaths(d, ProjRoot) \o n.path
  IN /\ key \notin trace.asked
     /\ \E m \in FileNodesOf(Written.entries) :
          /\ m.path = key
          /\ m.hash = n.hash
          /\ m.updated_at = n.updated_at
          /\ m.doc = FromJsonDoc(n.doc)

\* C5 (as claimed): with no cache file in the root, the clean entries of the
\* cache of any subdirectory are absorbed by one run on the root.
C5_AbsorbsAnySubCache ==
  \A d \in Dirs \ {ProjRoot} :
    ( /\ Wrote
      /\ NoCacheFileAt(trace.startDisk, ProjRoot)
      /\ CleanSubCache(trace.startDisk, d) )
    => \A n \in FileNodesOf(CacheFileAt(trace.startDisk, d).doc.entries) : Absorbed(d, n)

\* discovery reaches d: every directory from the root down to d can be read
\* and none above d holds a cache file
DiscoveryReaches(dk, d) ==
  /\ d \notin noRead
  /\ \A k \in Len(ProjRoot)..(Len(d) - 1) :
       /\ SubSeq(d, 1, k) \notin noRead
       /\ NoCacheFileAt(dk, SubSeq(d, 1, k))

\* the walk visits file f: no directory above it is ignored or unreadable
WalkVisits(f) ==
  /\ f \in Files => files[f] # "absent"
  /\ \A k \in (Len(ProjRoot) + 1)..(Len(f) - 1) : f[k] \notin args.ignore
  /\ \A k \in Len(ProjRoot)..(Len(f) - 1) : SubSeq(f, 1, k) \notin noRead

\* C5 (amended): with no cache file in the root and no force flag, the
\* clean entries of the cache of a subdirectory that discovery reaches, for
\* files the walk visits, are absorbed by one run on the root that writes
\* its cache: no annotation call, and an entry under the rebased path with
\* the original hash, doc and updated_at.
C5_AbsorbsDiscoveredSubCache ==
  \A d \in Dirs \ {ProjRoot} :
    ( /\ Wrote
      /\ ~args.force
      /\ NoCacheFileAt(trace.startDisk, ProjRoot)
      /\ CleanSubCache(trace.startDisk, d)
      /\ DiscoveryReaches(trace.startDisk, d)
      /\ \A n \in FileNodesOf(CacheFileAt(trace.startDisk, d).doc.entries) :
           WalkVisits(d \o n.path) )
    => \A n \in FileNodesOf(CacheFileAt(trace.startDisk, d).doc.entries) : Absorbed(d, n)

\* both sub-caches of the project were absorbed by a run on the root
C5_Witness ==
  /\ Wrote /\ ~args.force
  /\ NoCacheFileAt(trace.startDisk, ProjRoot)
  /\ CleanSubCache(trace.startDisk, DirB) /\ CleanSubCache(trace.startDisk, DirC)
  /\ RelY \in trace.reused /\ RelZ \in trace.reused
  /\ trace.asked = {}

\* C6: a walked file whose hash fails has no entry in updated_files nor in
\* the tree of the run, also when the merged index held one; the entries of
\* the other files are there as their own outcome has it.
C6_HashFailureDrops ==
  \A f \in Files :
    (Processed(f) /\ files[f] = "unreadable") =>
      /\ DiffPaths(f, ProjRoot) \in trace.hashFailed
      /\ DiffPaths(f, ProjRoot) \notin DOMAIN updated_files
      /\ \A n \in FileNodesOf(new_root.entries) : n.path # DiffPaths(f, ProjRoot)
      /\ \A g \in Files \ {f} :
           Processed(g) =>
             (DiffPaths(g, ProjRoot) \in DOMAIN updated_files
                <=> DiffPaths(g, ProjRoot) \in trace.inserted)

\* the hash of z failed although the index had an entry for it, and y got
\* its entry
C6_Witness ==
  /\ Wrote
  /\ RelZ \in trace.hashFailed
  /\ RelZ \in DOMAIN existing_by_path
  /\ \E n \in FileNodesOf(Written.entries) : n.path = RelY

\* C7 (as claimed): a walked file whose hash succeeds and which is not
\* reused gets an entry in updated_files whatever the regeneration steps
\* give.
C7_AlwaysInserted ==
  \A f \in Files :
    (Processed(f) /\ files[f] # "unreadable"
       /\ DiffPaths(f, ProjRoot) \notin trace.reused)
    => DiffPaths(f, ProjRoot) \in DOMAIN updated_files

C9_WriteFailurePropagated ==
  (Completed /\ ~hist[Len(hist)].writeOk) => result = "err"

\* the merged index when the caches that fail to load count as empty
RECURSIVE MergeLoadable(_, _, _)
MergeLoadable(dk, dirs, map) ==
  IF dirs = <<>> THEN map
  ELSE LET d == Head(dirs)
           found == \E i \in DOMAIN CHILD_CACHE_NAMES : dk[d][CHILD_CACHE_NAMES[i]].st # "absent"
       IN MergeLoadable(dk, Tail(dirs),
            IF found /\ CacheFileAt(dk, d).st = "ok"
            THEN rebase_child_tree_into_existing_by_path(
                   d, ProjRoot, FromJson(CacheFileAt(dk, d).doc), map)
            ELSE map)

IndexOfLoadable(dk) ==
  MergeLoadable(dk, find_child_cache_dirs(ProjRoot),
    IF dk[ProjRoot][".dirdocs.nu"].st = "ok"
    THEN index_files_by_path(FromJson(dk[ProjRoot][".dirdocs.nu"].doc).entries, EmptyMap)
    ELSE EmptyMap)

\* C10: a load gives the parsed tree when the file parses and otherwise an
\* empty tree labelled with the path from cwd to the root it is loaded for
\* ("." when that path is empty); a failed load only leaves that cache's
\* entries out of the merged index and does not end the run.
C10_LoadFailsOpen ==
  /\ \A l \in trace.loads :
       LET body == trace.startDisk[l.dir][l.name]
           rel == DiffPaths(l.dir, args.cwd)
       IN IF body.st = "ok" THEN l.tree = FromJson(body.doc)
          ELSE /\ l.tree.entries = <<>>
               /\ l.tree.root = IF rel = <<>> THEN <<".">> ELSE rel
  /\ pc \in {"scan", "build"} => existing_by_path = IndexOfLoadable(trace.startDisk)
  /\ trace.loads # {} => (result # "err" /\ (pc = "done" => Completed))

\* the root cache was missing and a sub-cache unreadable; the run, started
\* in another directory, went on to its end
C10_Witness ==
  /\ Completed
  /\ trace.loadFailed = {ProjRoot, DirB}
  /\ args.cwd = DirA
  /\ \E l \in trace.loads : l.dir = DirB /\ l.tree.root = <<"b">>

(***************************************************************************)
(* One run under the scheduling of a sequential program: from the scan     *)
(* loop on (src/main.rs:249-470) the step the program is at is taken.      *)
(***************************************************************************)
Proceed ==
  \/ \E it \in toWalk : WalkError(it)
  \/ \E it \in toWalk : HashFails(it)
  \/ \E it \in toWalk : Reuse(it)
  \/ \E it \in toWalk : RenderFails(it)
  \/ \E it \in toWalk : TemplateParseFails(it)
  \/ \E it \in toWalk, nfail \in FailCounts, ans \in Answers : Annotate(it, nfail, ans)
  \/ FinishWalk
  \/ \E k \in buildLeft :
       \E reads \in ClockReads(Len(NormalComps(k)) - 1) : BuildInsert(k, reads)
  \/ WriteOk
  \/ WriteFailsAtOpen
  \/ WriteFailsPartway

SpecLive == Init /\ [][Next]_vars /\ WF_vars(Proceed)

(***************************************************************************)
(* One run that may be killed from outside at any point before it calls    *)
(* fs::write (src/main.rs:461).                                            *)
(***************************************************************************)
Running == pc \in {"load", "discover", "merge", "scan", "build"}

Kill ==
  /\ Running
  /\ pc' = "done"
  /\ result' = "killed"
  /\ hist' = Append(hist, [completed |-> FALSE, force |-> args.force,
                           writeOk |-> FALSE, doc |-> ToJson(new_root),
                           run |-> trace])
  /\ UNCHANGED <<ask, links, badEntries, loop, files, disk, noRead, now, runNo, args, existing_by_path,
                 child_cache_dirs, toWalk, updated_files, new_root, buildLeft,
                 trace, changed>>

NextKill ==
  \/ Next
  \/ Kill

SpecKill == Init /\ [][NextKill]_vars

\* C11: the cache file is not written while the run loads, scans and
\* builds, nor by a run that is killed before its write step: it changes
\* only in the step that ends the run, after the last walked file has been
\* processed and the tree built.
C11_WriteOnceAtEnd ==
  /\ [](Running => disk = trace.startDisk)
  /\ []((pc = "done" /\ result = "killed") => disk = trace.startDisk)
  /\ [][disk' # disk =>
         (pc = "build" /\ toWalk = {} /\ buildLeft = {} /\ pc' = "done")]_vars

\* a run on a project with a root cache was killed after it had processed a
\* file, and the cache is as it was
C11_Witness ==
  /\ pc = "done" /\ result = "killed"
  /\ trace.startDisk[ProjRoot][".dirdocs.nu"] = RootCache
  /\ trace.regenerated # {}
  /\ disk[ProjRoot][".dirdocs.nu"] = RootCache

\* C12 (as claimed): from the start of a run on, the cache file holds the
\* complete document it held before the run or the complete document of the
\* run.
C12_AllOrNothing ==
  pc # "idle" =>
    disk[ProjRoot][".dirdocs.nu"] \in
      {trace.startDisk[ProjRoot][".dirdocs.nu"], Document(ToJson(new_root))}

(***************************************************************************)
(* The build loop (src/main.rs:449-458) on any flat map: the entries of    *)
(* updated_files are handed to the builder in any order.                   *)
(***************************************************************************)
MaxEntries == 3

\* the keys of the flat maps: files at the top, in directories, a file and a
\* directory of one name, and a path with a current-dir component
BuildKeys ==
  { <<"x">>, <<"a">>, <<"a", "x">>, <<"a", "b", "x">>, <<"c", "x">>,
    <<".", "c", "y">> }

\* the entry under key k: its path is its key
BuildEntry(k) ==
  FileEntry(k[Len(k)], k, <<"blake3", k>>, Len(k) % 2,
            IF Len(k) = 1 THEN DefaultDoc ELSE GoodDoc)

FlatMaps ==
  { [k \in K |-> BuildEntry(k)] :
      K \in {S \in SUBSET BuildKeys : Cardinality(S) <= MaxEntries} }

InitBuild ==
  /\ files = [f \in Files |-> "c1"]
  /\ disk = NoCaches
  /\ noRead = {}
  /\ now = 1
  /\ pc = "build"
  /\ runNo = 1
  /\ args = NoArgs
  /\ existing_by_path = EmptyMap
  /\ child_cache_dirs = <<>>
  /\ toWalk = {}
  /\ updated_files \in FlatMaps
  /\ new_root = DirdocsRoot(<<".">>, 1, <<>>)
  /\ buildLeft = DOMAIN updated_files
  /\ result = "none"
  /\ trace = EmptyTrace
  /\ changed = {}
  /\ hist = <<>>
  /\ ask = NoAsk
  /\ links = {}
  /\ badEntries = {}
  /\ loop = NoLoop

NextBuild ==
  \E k \in buildLeft :
    \E reads \in ClockReads(Len(NormalComps(k)) - 1) : BuildInsert(k, reads)

SpecBuild == InitBuild /\ [][NextBuild]_vars

\* the entries of map m under the keys of K
Restrict(m, K) == [k \in K |-> m[k]]

C14_DiscoveryBoundary ==
  /\ \A d1, d2 \in Range(trace.discovered) : IsPrefix(d1, d2) => d1 = d2
  /\ \A d \in trace.listed \cup Range(trace.discovered) :
       \A k \in Len(ProjRoot)..(Len(d) - 1) :
         NoCacheFileAt(trace.startDisk, SubSeq(d, 1, k))
  /\ \A d \in Range(trace.discovered) : ~NoCacheFileAt(trace.startDisk, d)

\* proj/a and proj/a/b both hold a cache file: proj/a is returned, proj/a/b
\* is neither listed nor returned
C14_Witness ==
  /\ pc = "scan"
  /\ ~NoCacheFileAt(trace.startDisk, DirA)
  /\ ~NoCacheFileAt(trace.startDisk, DirB)
  /\ trace.discovered = <<DirA>>
  /\ DirA \in trace.listed /\ DirB \notin trace.listed

(***************************************************************************)
(* The load and merge phase (src/main.rs:176-214) on cache files of any    *)
(* shape: nested Dir nodes, File nodes that share a path, an absolute      *)
(* path.                                                                   *)
(***************************************************************************)
Hash(h) == <<"blake3", h>>

\* x twice and d/w twice, at different depths
DocDuplicates ==
  [root |-> <<".">>, updated_at |-> 0, entries |->
    << FileNode("x", <<"x">>, Hash("h1"), 0, GoodDoc),
       DirNode("d", <<"d">>, 1,
         << FileNode("x", <<"x">>, Hash("h2"), 1, DefaultDoc),
            FileNode("w", <<"d", "w">>, Hash("h3"), 0, GoodDoc) >>),
       FileNode("w", <<"d", "w">>, Hash("h4"), 1, GoodDoc) >>]

\* a file two directories down and a file under an absolute path
DocNested ==
  [root |-> <<".">>, updated_at |-> 0, entries |->
    << DirNode("e", <<"e">>, 0,
         << DirNode("f", <<"f">>, 0,
              << FileNode("v", <<"e", "f", "v">>, Hash("h5"), 0, GoodDoc) >>) >>),
       FileNode("x", <<"/", "abs", "x">>, Hash("h6"), 0, GoodDoc) >>]

\* the same absolute path with other content, and an empty directory
DocAbsolute ==
  [root |-> <<".">>, updated_at |-> 1, entries |->
    << DirNode("g", <<"g">>, 0, <<>>),
       FileNode("x", <<"/", "abs", "x">>, Hash("h7"), 1, DefaultDoc) >>]

DocEmpty == [root |-> <<".">>, updated_at |-> 0, entries |-> <<>>]

MergeDocs == {DocDuplicates, DocNested, DocAbsolute, DocEmpty}

MergeDisks ==
  { WithCache(NoCaches, ProjRoot, ".dirdocs.nu", Document(d)) : d \in MergeDocs }
  \cup
  { WithCache(WithCache(NoCaches, DirA, ".dirdocs.nu", Document(da)),
              DirC, ".dir.nuon", Document(dc)) : da \in MergeDocs, dc \in MergeDocs }

InitMerge ==
  /\ files = [f \in Files |-> "c1"]
  /\ disk \in MergeDisks
  /\ noRead = {}
  /\ now = 1
  /\ pc = "idle"
  /\ runNo = 0
  /\ args = NoArgs
  /\ existing_by_path = EmptyMap
  /\ child_cache_dirs = <<>>
  /\ toWalk = {}
  /\ updated_files = EmptyMap
  /\ new_root = DirdocsRoot(<<".">>, 0, <<>>)
  /\ buildLeft = {}
  /\ result = "none"
  /\ trace = EmptyTrace
  /\ changed = {}
  /\ hist = <<>>
  /\ ask = NoAsk
  /\ links = {}
  /\ badEntries = {}
  /\ loop = NoLoop

NextMerge ==
  \/ \E a \in ArgChoices : StartRun(a)
  \/ LoadRoot
  \/ Discover
  \/ MergeChild
  \/ BuildWalker

SpecMerge == InitMerge /\ [][NextMerge]_vars

\* the File nodes of a forest in depth-first order over the entries lists
RECURSIVE Flatten(_)
Flatten(nodes) ==
  IF nodes = <<>> THEN <<>>
  ELSE (IF Head(nodes).kind = "dir" THEN Flatten(Head(nodes).entries)
        ELSE <<Head(nodes)>>) \o Flatten(Tail(nodes))

\* the last node of flat whose path, joined to prefix, is k
LastUnder(flat, prefix, k) ==
  flat[CHOOSE i \in DOMAIN flat :
         /\ Join(prefix, flat[i].path) = k
         /\ \A j \in DOMAIN flat : Join(prefix, flat[j].path) = k => j <= i]

\* the tree the merge loop loads for directory d
TreeLoadedFor(d) ==
  IF CacheFileAt(disk, d).st = "ok" THEN FromJson(CacheFileAt(disk, d).doc)
  ELSE DirdocsRoot(<<".">>, 0, <<>>)

\* C15: one rebase puts, for every File node at any depth of the child
\* tree, an entry under the key prefix.join(path of the node), prefix being
\* the path from the parent root to the child root; the entry has that key
\* as path and the name, hash, updated_at and doc of the node (of the node
\* visited last when several give one key); the entries under other keys
\* stay as they were and nothing is inserted for a Dir node.
C15_Rebase ==
  [][ (pc = "merge" /\ child_cache_dirs' # child_cache_dirs) =>
        LET child == Head(child_cache_dirs)
            prefix == DiffPaths(child, ProjRoot)
            flat == Flatten(TreeLoadedFor(child).entries)
            newKeys == {Join(prefix, flat[i].path) : i \in DOMAIN flat}
        IN /\ DOMAIN existing_by_path' = (DOMAIN existing_by_path) \cup newKeys
           /\ \A k \in (DOMAIN existing_by_path) \ newKeys :
                existing_by_path'[k] = existing_by_path[k]
           /\ \A k \in newKeys :
                LET n == LastUnder(flat, prefix, k)
                IN existing_by_path'[k] = FileEntry(n.name, k, n.hash, n.updated_at, n.doc)
    ]_vars

\* the caches of proj/a and proj/c were rebased one after the other: a
\* nested file under its prefixed path, the entry of proj/a under the
\* absolute path replaced, the other entry of proj/a left as it was
C15_Witness ==
  /\ pc = "merge" /\ child_cache_dirs = <<>>
  /\ trace.discovered = <<DirA, DirC>>
  /\ disk[DirA][".dirdocs.nu"] = Document(DocNested)
  /\ disk[DirC][".dir.nuon"] = Document(DocAbsolute)
  /\ DOMAIN existing_by_path = {<<"a", "e", "f", "v">>, <<"/", "abs", "x">>}
  /\ existing_by_path[<<"a", "e", "f", "v">>].path = <<"a", "e", "f", "v">>
  /\ existing_by_path[<<"/", "abs", "x">>].hash = Hash("h7")

\* C16: the keys of the index of the root cache are the paths of the File
\* nodes at any depth of its forest, none comes from a Dir node, and the
\* entry under a key is the File node of that path visited last in
\* depth-first order.
C16_Index ==
  pc = "discover" =>
    LET forest == TreeLoadedFor(ProjRoot).entries
        flat == Flatten(forest)
    IN /\ DOMAIN existing_by_path = {n.path : n \in FileNodesOf(forest)}
       /\ \A k \in DOMAIN existing_by_path :
            existing_by_path[k] = NodeEntry(LastUnder(flat, <<>>, k))

\* the root cache with x and d/w twice was indexed: the later nodes won
C16_Witness ==
  /\ pc = "discover"
  /\ disk[ProjRoot][".dirdocs.nu"] = Document(DocDuplicates)
  /\ DOMAIN existing_by_path = {<<"x">>, <<"d", "w">>}
  /\ existing_by_path[<<"x">>].hash = Hash("h2")
  /\ existing_by_path[<<"d", "w">>].hash = Hash("h4")

\* no two File nodes of the forest have the same path
UniquePaths(nodes) ==
  \A i, j \in DOMAIN Flatten(nodes) :
    Flatten(nodes)[i].path = Flatten(nodes)[j].path => i = j

\* C17: at every point of the build and in the tree a run has written, no
\* two File nodes have the same path, whatever the loaded caches held and
\* whatever files were walked.
C17_UniquePaths ==
  /\ UniquePaths(new_root.entries)
  /\ Wrote => UniquePaths(Written.entries)

\* a run on a root cache that names a/b/y twice wrote a tree with one node
\* for each of the two files
C17_Witness ==
  /\ Wrote
  /\ trace.startDisk[ProjRoot][".dirdocs.nu"] = RootCacheTwice
  /\ ~UniquePaths(FromJson(RootCacheTwice.doc).entries)
  /\ {n.path : n \in FileNodesOf(Written.entries)} = {RelY, RelZ}
  /\ Len(Flatten(Written.entries)) = 2

\* the nodes of a forest at any depth
RECURSIVE AllNodes(_)
AllNodes(nodes) ==
  UNION { {nodes[i]} \cup (IF nodes[i].kind = "dir" THEN AllNodes(nodes[i].entries) ELSE {}) :
            i \in 1..Len(nodes) }

\* C18 (as claimed): when the build loop has ended, the updated_at of every
\* Dir node is at least the updated_at of every Dir node and File node
\* below it.
C18_DirStampCoversSubtree ==
  (pc = "build" /\ buildLeft = {}) =>
    \A d \in AllNodes(new_root.entries) :
      d.kind = "dir" =>
        \A m \in AllNodes(d.entries) : m.updated_at <= d.updated_at

\* the forest with the updated_at of its Dir nodes set aside
RECURSIVE StripDirTimes(_)
StripDirTimes(nodes) ==
  [i \in 1..Len(nodes) |->
     IF nodes[i].kind = "dir"
     THEN DirNode(nodes[i].name, nodes[i].path, 0, StripDirTimes(nodes[i].entries))
     ELSE nodes[i]]

\* the forest the builder makes of map m when it gets the keys in order q
RECURSIVE BuildInOrder(_, _, _)
BuildInOrder(q, m, entries) ==
  IF q = <<>> THEN entries
  ELSE BuildInOrder(Tail(q), m,
         insert_file_into_tree(entries, Head(q), m[Head(q)],
                               [i \in 1..(Len(NormalComps(Head(q))) - 1) |-> 0]))

\* the orders in which a HashMap with the keys K may iterate
Orders(K) ==
  {q \in [1..Cardinality(K) -> K] : \A i, j \in 1..Cardinality(K) : q[i] = q[j] => i = j}

\* C19 (as claimed): the forest a build ends with is, Dir timestamps aside,
\* the forest the builder makes of the same map in any other order of its
\* entries.
C19_OrderIndependent ==
  (pc = "build" /\ buildLeft = {}) =>
    \A q \in Orders(DOMAIN updated_files) :
      StripDirTimes(BuildInOrder(q, updated_files, <<>>)) = StripDirTimes(new_root.entries)

\* a decision of the scan loop has been taken in this run
ScanDecided ==
  \/ trace.reused # {} \/ trace.regenerated # {}
  \/ trace.hashFailed # {} \/ trace.walkErrors > 0

\* the File nodes of every tree loaded so far are in the index, those of a
\* sub-cache under their rebased paths
LoadsIndexed ==
  \A l \in trace.loads :
    \A n \in FileNodesOf(l.tree.entries) :
      Join(DiffPaths(l.dir, ProjRoot), n.path) \in DOMAIN existing_by_path

AnyKeys ==
  { <<"x">>, <<"a", "b", "x">>, <<"a", "..", "b", "x">>, <<"..", "x">>,
    <<"/", "a", "x">>, <<".">>, <<"..", "..">> }

FlatMapsAny ==
  { [k \in K |-> BuildEntry(k)] :
      K \in {S \in SUBSET AnyKeys : Cardinality(S) <= MaxEntries} }

InitBuildAny ==
  /\ files = [f \in Files |-> "c1"]
  /\ disk = NoCaches
  /\ noRead = {}
  /\ now = 1
  /\ pc = "build"
  /\ runNo = 1
  /\ args = NoArgs
  /\ existing_by_path = EmptyMap
  /\ child_cache_dirs = <<>>
  /\ toWalk = {}
  /\ updated_files \in FlatMapsAny
  /\ new_root = DirdocsRoot(<<".">>, 1, <<>>)
  /\ buildLeft = DOMAIN updated_files
  /\ result = "none"
  /\ trace = EmptyTrace
  /\ changed = {}
  /\ hist = <<>>
  /\ ask = NoAsk
  /\ links = {}
  /\ badEntries = {}
  /\ loop = NoLoop

SpecBuildAny == InitBuildAny /\ [][NextBuild]_vars

\* where the File nodes of a forest are: the names of the Dir nodes above
\* each and its own name, with the path it carries
RECURSIVE Located(_, _)
Located(nodes, at) ==
  UNION { IF nodes[i].kind = "dir"
          THEN Located(nodes[i].entries, Append(at, nodes[i].name))
          ELSE {[at |-> Append(at, nodes[i].name), path |-> nodes[i].path]} :
            i \in 1..Len(nodes) }

\* the keys handed to the builder so far
Inserted == (DOMAIN updated_files) \ buildLeft

\* C21: every inserted entry whose key has a normal component has its File
\* node at the location that the normal components of the key name, the
\* other components being dropped and not resolved; an entry whose key has
\* no normal component adds no node.
C21_NormalComponentsOnly ==
  pc = "build" =>
    /\ Located(new_root.entries, <<>>) =
         { [at |-> SelectSeq(k, IsNormal), path |-> k] :
             k \in {j \in Inserted : SelectSeq(j, IsNormal) # <<>>} }
    /\ Len(Flatten(new_root.entries)) =
         Cardinality({j \in Inserted : SelectSeq(j, IsNormal) # <<>>})

\* a/b/x and a/../b/x were both placed in a/b, and the entry under "." was
\* dropped
C21_Witness ==
  /\ pc = "build" /\ buildLeft = {}
  /\ DOMAIN updated_files = {<<"a", "b", "x">>, <<"a", "..", "b", "x">>, <<".">>}
  /\ Len(new_root.entries) = 1
  /\ {l.at : l \in Located(new_root.entries, <<>>)} = {<<"a", "b", "x">>}
  /\ Len(Flatten(new_root.entries)) = 2

\* the sibling lists of a forest: the list itself and the entries of every
\* Dir node in it
SiblingLists(nodes) ==
  {nodes} \cup {d.entries : d \in {n \in AllNodes(nodes) : n.kind = "dir"}}

\* C22: at every point of a build that started from an empty forest, no
\* sibling list at any depth holds two Dir nodes of the same name.
C22_NoTwinDirs ==
  pc = "build" =>
    \A sibs \in SiblingLists(new_root.entries) :
      \A i, j \in DOMAIN sibs :
        (sibs[i].kind = "dir" /\ sibs[j].kind = "dir" /\ sibs[i].name = sibs[j].name)
          => i = j

\* three files below a were inserted: one Dir a holds x and the Dir b
C22_Witness ==
  /\ pc = "build" /\ buildLeft = {}
  /\ DOMAIN updated_files = {<<"a", "x">>, <<"a", "b", "x">>, <<"c", "x">>}
  /\ Len(new_root.entries) = 2
  /\ \E i \in DOMAIN new_root.entries :
       /\ new_root.entries[i].name = "a"
       /\ Len(new_root.entries[i].entries) = 2

\* the names of the Dir nodes and the names of the File nodes at location at
\* (the names of the Dir nodes above) of a forest
RECURSIVE NamesAt(_, _, _)
NamesAt(nodes, at, kind) ==
  IF at = <<>> THEN {nodes[i].name : i \in {j \in DOMAIN nodes : nodes[j].kind = kind}}
  ELSE UNION { NamesAt(nodes[i].entries, Tail(at), kind) :
                 i \in {j \in DOMAIN nodes :
                          nodes[j].kind = "dir" /\ nodes[j].name = Head(at)} }

\* C23: when the builder has been given a file and a path through a
\* directory of the file's name at the same level, in either order, that
\* level holds a File node and a Dir node of the name: the File node keeps
\* its entry and the Dir node holds what was inserted through it.
C23_VariantsCollide ==
  pc = "build" =>
    \A k1, k2 \in Inserted :
      (Len(k1) < Len(k2) /\ IsPrefix(k1, k2)) =>
        /\ k1[Len(k1)] \in NamesAt(new_root.entries, SubSeq(k1, 1, Len(k1) - 1), "file")
        /\ k1[Len(k1)] \in NamesAt(new_root.entries, SubSeq(k1, 1, Len(k1) - 1), "dir")
        /\ [at |-> k1, path |-> k1] \in Located(new_root.entries, <<>>)
        /\ [at |-> k2, path |-> k2] \in Located(new_root.entries, <<>>)

\* the file a and two files below the directory a were inserted: the top
\* level holds a File node a and a Dir node a
C23_Witness ==
  /\ pc = "build" /\ buildLeft = {}
  /\ DOMAIN updated_files = {<<"a">>, <<"a", "x">>, <<"a", "b", "x">>}
  /\ Len(new_root.entries) = 2
  /\ NamesAt(new_root.entries, <<>>, "file") = {"a"}
  /\ NamesAt(new_root.entries, <<>>, "dir") = {"a"}

\* the Dir nodes of a forest, each with the names of the Dir nodes above it
\* and its own
RECURSIVE LocatedDirs(_, _)
LocatedDirs(nodes, at) ==
  UNION { IF nodes[i].kind = "dir"
          THEN {[at |-> Append(at, nodes[i].name), path |-> nodes[i].path]}
               \cup LocatedDirs(nodes[i].entries, Append(at, nodes[i].name))
          ELSE {} :
            i \in 1..Len(nodes) }

\* C24 (as claimed): the path of every Dir node the builder creates is the
\* names of the Dir nodes above it and its own name, at every depth.
C24_DirPathFromRoot ==
  pc = "build" =>
    \A d \in LocatedDirs(new_root.entries, <<>>) : d.path = d.at

\* the discovery of this run has been done
Discovered == pc \in {"merge", "scan", "build"} \/ Completed

\* C25: when the root directly holds a recognised cache file, discovery
\* returns the root alone and lists no other directory, and no cache file
\* of a directory below the root is loaded in that run.
C25_RootCacheShadowsAll ==
  (Discovered /\ ~NoCacheFileAt(trace.startDisk, ProjRoot)) =>
    /\ trace.discovered = <<ProjRoot>>
    /\ trace.listed = {ProjRoot}
    /\ \A l \in trace.loads : l.dir = ProjRoot

\* the root cache knows z only and proj/a/b holds a cache with a clean entry
\* for y: the sub-cache is not merged and y is regenerated
C25_Witness ==
  /\ Completed
  /\ trace.startDisk[ProjRoot][".dirdocs.nu"] = RootCacheZ
  /\ trace.startDisk[DirB][".dirdocs.nu"] = SubCacheB
  /\ trace.discovered = <<ProjRoot>>
  /\ DOMAIN existing_by_path = {RelZ}
  /\ RelY \in trace.asked

\* C26: every directory that discovery records as holding a cache file has
\* a cache file found and loaded by the merge loop of the same run.
C26_HitsAreLoaded ==
  (pc \in {"scan", "build"} \/ Completed) =>
    \A i \in DOMAIN trace.discovered :
      \E l \in trace.loads : l.dir = trace.discovered[i]

(***************************************************************************)
(* ask_with_retry on its own: any number of attempts, any outcomes of      *)
(* api::ask.                                                               *)
(***************************************************************************)
MaxAttemptsAsked == 4

\* what one call of api::ask may return
ApiOutcomes == {ApiErr, EmptyAnswer} \cup {a \in Answers : a.kind = "resp"}

InitAsk ==
  /\ files = [f \in Files |-> "c1"]
  /\ disk = NoCaches
  /\ noRead = {}
  /\ now = 1
  /\ pc = "ask"
  /\ runNo = 1
  /\ args = NoArgs
  /\ existing_by_path = EmptyMap
  /\ child_cache_dirs = <<>>
  /\ toWalk = {}
  /\ updated_files = EmptyMap
  /\ new_root = DirdocsRoot(<<".">>, 1, <<>>)
  /\ buildLeft = {}
  /\ result = "none"
  /\ trace = EmptyTrace
  /\ changed = {}
  /\ hist = <<>>
  /\ links = {}
  /\ badEntries = {}
  /\ loop = NoLoop
  /\ \E outs \in [1..MaxAttemptsAsked -> ApiOutcomes] :
       \E max_attempts \in 0..MaxAttemptsAsked :
         ask = [outs |-> outs, max_attempts |-> max_attempts, returned |-> FALSE,
                ret |-> AskResult(FALSE, EmptyAnswer, <<>>)]

\* src/main.rs:1116-1161: ask_with_retry runs to its return
AskReturns ==
  /\ pc = "ask"
  /\ ~ask.returned
  /\ ask' = [ask EXCEPT !.returned = TRUE,
                        !.ret = ask_with_retry(ask.outs, ask.max_attempts)]
  /\ UNCHANGED <<links, badEntries, loop, files, disk, noRead, now, pc, runNo,
                 args, existing_by_path, child_cache_dirs, toWalk, updated_files,
                 new_root, buildLeft, result, trace, changed, hist>>

SpecAsk == InitAsk /\ [][AskReturns]_vars

\* the attempts whose call of api::ask fails
Failing(outs, n) == {j \in 1..n : outs[j] = ApiErr}

\* C27: ask_with_retry with max_attempts = n calls api::ask at most n times,
\* the j-th call being the last exactly when it succeeds or j = n; it
\* returns the first successful answer, an error exactly when all n calls
\* fail, sleeps only between two calls, and with n = 0 returns an error
\* without a call.
C27_RetryPolicy ==
  ask.returned =>
    LET n == ask.max_attempts
        outs == ask.outs
        r == ask.ret
        log == r.log
    IN /\ r.calls <= n
       /\ \A i \in DOMAIN log :
            log[i] = "sleep" =>
              /\ 1 < i /\ i < Len(log)
              /\ log[i - 1] = "ask" /\ log[i + 1] = "ask"
       /\ \A i \in DOMAIN log : (log[i] = "ask" /\ i < Len(log)) => log[i + 1] = "sleep"
       /\ r.ok <=> Failing(outs, n) # 1..n
       /\ r.ok =>
            /\ outs[r.calls] # ApiErr
            /\ r.answer = outs[r.calls]
            /\ 1..(r.calls - 1) \subseteq Failing(outs, n)
       /\ ~r.ok => r.calls = n
       /\ n = 0 => ~r.ok /\ log = <<>>

\* two failures, then a success with one attempt to spare
C27_Witness ==
  /\ ask.returned
  /\ ask.max_attempts = 4
  /\ ask.ret.ok
  /\ ask.ret.log = <<"ask", "sleep", "ask", "sleep", "ask">>
  /\ ask.outs[4] = ApiErr

\* src/main.rs:246-264: the relative paths of the files the walk of this
\* run yields
Visited ==
  { rel_str_of(it.path) : it \in {i \in WalkItems(root, args.ignore) : ~i.err} }

\* C28: the paths of the File nodes of the tree a run builds and writes are
\* paths of files the walk of that run visited, whatever the merged index
\* holds.
C28_WrittenWithinWalk ==
  /\ pc = "build" =>
       {n.path : n \in FileNodesOf(new_root.entries)} \subseteq Visited
  /\ Wrote =>
       {n.path : n \in FileNodesOf(Written.entries)} \subseteq Visited

\* a/b/y was deleted after the root cache was written: the index has its
\* entry, the written tree has z only
C28_Witness ==
  /\ Wrote
  /\ files[FY] = "absent"
  /\ RelY \in DOMAIN existing_by_path
  /\ {n.path : n \in FileNodesOf(Written.entries)} = {RelZ}

(***************************************************************************)
(* find_child_cache_dirs step by step (src/main.rs:851-911): one action    *)
(* for an iteration of `while let Some(dir) = stack.pop()`, by its three   *)
(* ways out, and one for the return.  The projects have symbolic links to  *)
(* directories (one of them to the root, a cycle), directories that cannot *)
(* be read and directory entries that cannot be read.                      *)
(***************************************************************************)
LinkChoices ==
  { {},
    {[at |-> DirA \o <<"up">>, to |-> ProjRoot]},
    {[at |-> DirC \o <<"l">>, to |-> DirB]} }

NoReadFinds == { {}, {DirC}, {DirA}, {ProjRoot} }

BadEntryChoices == { {}, {DirA}, {DirC \o <<".dir.nuon">>} }

InitDiscover ==
  /\ files = [f \in Files |-> "c1"]
  /\ disk \in DiskChoices
  /\ noRead \in NoReadFinds
  /\ now = 1
  /\ pc = "find"
  /\ runNo = 1
  /\ args = NoArgs
  /\ existing_by_path = EmptyMap
  /\ child_cache_dirs = <<>>
  /\ toWalk = {}
  /\ updated_files = EmptyMap
  /\ new_root = DirdocsRoot(<<".">>, 1, <<>>)
  /\ buildLeft = {}
  /\ result = "none"
  /\ trace = EmptyTrace
  /\ changed = {}
  /\ hist = <<>>
  /\ ask = NoAsk
  /\ links \in LinkChoices
  /\ badEntries \in BadEntryChoices
  /\ loop = [stack |-> <<root>>, out |-> <<>>, popped |-> <<>>]

\* src/main.rs:855: stack.pop()
Top == loop.stack[Len(loop.stack)]
Popped == [loop EXCEPT !.stack = SubSeq(@, 1, Len(@) - 1), !.popped = Append(@, Top)]

FindRest ==
  UNCHANGED <<files, disk, noRead, now, runNo, args, existing_by_path, toWalk,
              updated_files, new_root, buildLeft, result, trace, changed, hist,
              ask, links, badEntries>>

\* src/main.rs:857-860: fs::read_dir fails, `continue`
FindSkipsUnreadable ==
  /\ pc = "find" /\ loop.stack # <<>>
  /\ Top \in noRead
  /\ loop' = Popped
  /\ UNCHANGED <<pc, child_cache_dirs>>
  /\ FindRest

\* src/main.rs:861-887: a cache file is among the entries; the directory is
\* pushed to out and not descended
FindRecordsHit ==
  /\ pc = "find" /\ loop.stack # <<>>
  /\ Top \notin noRead /\ HasCache(Top)
  /\ loop' = [Popped EXCEPT !.out = Append(@, Top)]
  /\ UNCHANGED <<pc, child_cache_dirs>>
  /\ FindRest

\* src/main.rs:889-907: no cache file; the subdirectories are pushed in the
\* order fs::read_dir lists them
FindDescends ==
  /\ pc = "find" /\ loop.stack # <<>>
  /\ Top \notin noRead /\ ~HasCache(Top)
  /\ \E order \in Orders(SubDirs(Top)) :
       loop' = [Popped EXCEPT !.stack = @ \o order]
  /\ UNCHANGED <<pc, child_cache_dirs>>
  /\ FindRest

\* src/main.rs:909-911: out.sort(); out.dedup(); out
FindReturns ==
  /\ pc = "find" /\ loop.stack = <<>>
  /\ child_cache_dirs' = SortDedup(Range(loop.out))
  /\ pc' = "found"
  /\ UNCHANGED loop
  /\ FindRest

NextDiscover ==
  \/ FindSkipsUnreadable
  \/ FindRecordsHit
  \/ FindDescends
  \/ FindReturns

SpecDiscover == InitDiscover /\ [][NextDiscover]_vars /\ WF_vars(NextDiscover)

\* directory d is listed and holds no cache file: the loop goes below it
Open(d) == d \notin noRead /\ ~HasCache(d)

\* d is the root, or a directory whose entry can be read in a chain of real
\* directories below the root that are all open
Arrives(d) ==
  /\ IsPrefix(root, d)
  /\ \A k \in Len(root)..(Len(d) - 1) : Open(SubSeq(d, 1, k))
  /\ \A k \in (Len(root) + 1)..Len(d) : SubSeq(d, 1, k) \notin badEntries

\* C29: discovery returns; no directory is popped twice; a directory is
\* popped only when a chain of real directories leads to it from the root
\* (no symbolic link is followed); and what it returns is every directory
\* with a cache file that such a chain leads to and that can be read,
\* whatever else could not be read.
C29_DiscoveryTerminates ==
  /\ <>(pc = "found")
  /\ [](\A i, j \in DOMAIN loop.popped : loop.popped[i] = loop.popped[j] => i = j)
  /\ [](\A i \in DOMAIN loop.popped : Arrives(loop.popped[i]))
  /\ [](pc = "found" =>
         /\ Range(loop.popped) = {d \in Dirs : Arrives(d)}
         /\ Range(child_cache_dirs) =
              {d \in Dirs : Arrives(d) /\ d \notin noRead /\ HasCache(d)})

\* proj/a holds a link to the root and proj/c cannot be read: discovery
\* has returned proj/a/b, having popped the root, proj/a, proj/a/b and proj/c
C29_Witness ==
  /\ pc = "found"
  /\ links = {[at |-> DirA \o <<"up">>, to |-> ProjRoot]}
  /\ noRead = {DirC}
  /\ HasCache(DirC)
  /\ child_cache_dirs = <<DirB>>
  /\ Len(loop.popped) = 4

(***************************************************************************)
(* The viewers dls and dtree (src/bin/dls.rs, src/bin/dtree.rs): the same  *)
(* upward search and the same load in both.                                *)
(***************************************************************************)
\* Path::exists for cur.join(name); the directories above the project hold
\* no cache file
ExistsAt(cur, name) == cur \in Dirs /\ Exists(cur, name)

\* src/bin/dls.rs:681-693: <<>> is the file system root, whose parent() is
\* None
RECURSIVE find_project_root(_)
find_project_root(cur) ==
  IF ExistsAt(cur, DIRDOCS_NUON) THEN Some(cur)
  ELSE IF cur = <<>> THEN None
  ELSE find_project_root(Parent(cur))

\* src/bin/dls.rs:390-394, 715-717: the file the descriptions are read from
ViewerFile(start) ==
  IF find_project_root(start).some
  THEN Some(find_project_root(start).value \o <<DIRDOCS_NUON>>)
  ELSE None

\* C30 (as claimed): after a run on the root that wrote its cache, the
\* upward search of the viewers from any directory at or below the root
\* returns the root, and the file they read is the file the run wrote.
C30_ViewersReadSync ==
  Wrote =>
    \A start \in Dirs :
      /\ find_project_root(start) = Some(root)
      /\ ViewerFile(start) = Some(root \o <<DIRDOCS_NU>>)

====
